---- MODULE Spec2Model ----
(***************************************************************************)
(* Model of the resume ingestion core of RagExperiments:                   *)
(*   - PdfHandler.__init__ / _chunk_text / readPDF      (src/pdfHandler.py) *)
(*   - QdrantHandler._stable_pid / upsert_items /                          *)
(*     parse_nl_filters                               (src/qDrantHandler.py) *)
(*   - RagHandler.updateQDrant                          (src/ragHandler.py) *)
(*   - DataUploadHandler._save_one               (src/dataUploadHandler.py) *)
(* Python strings are sequences of one-character strings, Python offsets   *)
(* are 0-based and are kept 0-based in the state.                          *)
(***************************************************************************)
EXTENDS Integers, Sequences, FiniteSets, TLC

VARIABLES hstate, args, chunk_size, chunk_overlap, error,
          pc, text, start, chunks,
          uploads, store, ingestLog,
          query, filt, fpc,
          section, lineIdx, cur, roles, edu, ppc,
          full_text, profile, xpc,
          doc_lines, target, parsed, lpc,
          job_title, inferred, spc

vars == <<hstate, args, chunk_size, chunk_overlap, error,
          pc, text, start, chunks,
          uploads, store, ingestLog,
          query, filt, fpc,
          section, lineIdx, cur, roles, edu, ppc,
          full_text, profile, xpc,
          doc_lines, target, parsed, lpc,
          job_title, inferred, spc>>

handlerVars == <<hstate, args, chunk_size, chunk_overlap, error>>
chunkVars == <<pc, text, start, chunks>>
ingestVars == <<uploads, store, ingestLog>>
filterVars == <<query, filt, fpc>>
parseVars == <<section, lineIdx, cur, roles, edu, ppc>>
profileVars == <<full_text, profile, xpc>>
listVars == <<doc_lines, target, parsed, lpc>>
seniorityVars == <<job_title, inferred, spc>>

\* no call of a list-style section parser, none of _infer_seniority
IdleLists == doc_lines = <<>> /\ target = <<>> /\ parsed = <<>> /\ lpc = "idle"

IdleSeniority == job_title = <<>> /\ inferred = <<>> /\ spc = "idle"

\* ------------------------------------------------------------------------
\* Bounds of the model
\* ------------------------------------------------------------------------
MaxTextLen == 4
MaxConfig == 3
MaxQueryPhrases == 3

\* ------------------------------------------------------------------------
\* Python helpers
\* ------------------------------------------------------------------------
Min(a, b) == IF a <= b THEN a ELSE b

Max(a, b) == IF a >= b THEN a ELSE b

Whitespace == {" ", "\n", "\t"}

\* str.strip(): drop leading and trailing whitespace
Strip(s) ==
    LET keep == {i \in 1..Len(s) : s[i] \notin Whitespace}
    IN IF keep = {} THEN <<>>
       ELSE LET lo == CHOOSE i \in keep : \A j \in keep : i <= j
                hi == CHOOSE i \in keep : \A j \in keep : j <= i
            IN SubSeq(s, lo, hi)

\* s[a:b] with Python's treatment of negative and out-of-range indices
PySlice(s, a, b) ==
    LET n == Len(s)
        na == IF a < 0 THEN Max(a + n, 0) ELSE Min(a, n)
        nb == IF b < 0 THEN Max(b + n, 0) ELSE Min(b, n)
    IN SubSeq(s, na + 1, nb)

\* ------------------------------------------------------------------------
\* PdfHandler.__init__
\* ------------------------------------------------------------------------
\* chunk_size and chunk_overlap are any Python ints: negative ones included
ConfigRange == (0 - MaxConfig)..MaxConfig

MutCtorRejects(cs, ov) == ov > cs

\* the validation of __init__: True when the constructor raises
CtorRejects(cs, ov) == ov >= cs

\* args are the arguments of the call; the fields are assigned only when
\* the validation passes
Construct(cs, ov) ==
    /\ hstate = "none"
    /\ args' = <<cs, ov>>
    /\ IF CtorRejects(cs, ov)
          THEN /\ hstate' = "raised"
               /\ error' = "ValueError"
               /\ UNCHANGED <<chunk_size, chunk_overlap>>
          ELSE /\ hstate' = "ok"
               /\ error' = "none"
               /\ chunk_size' = cs
               /\ chunk_overlap' = ov
    /\ UNCHANGED <<chunkVars, ingestVars, filterVars>>
    /\ UNCHANGED <<parseVars, profileVars>>
    /\ UNCHANGED <<listVars, seniorityVars>>

\* ------------------------------------------------------------------------
\* PdfHandler._chunk_text
\* ------------------------------------------------------------------------
PageChars == {"a", "b", " "}

RECURSIVE TextsOfLen(_)
TextsOfLen(k) ==
    IF k = 0 THEN {<<>>}
    ELSE {Append(t, c) : t \in TextsOfLen(k - 1), c \in PageChars}

Texts == UNION {TextsOfLen(k) : k \in 0..MaxTextLen}

MutWindowEnd(st, cs, n) == st + cs

\* end = min(start + chunk_size, n)
WindowEnd(st, cs, n) == Min(st + cs, n)

MutNextStartNoOverlap(end, ov) == Max(end, 0)

MutNextStartStuck(end, ov) == Max(end - ov - 1, 0)

\* start = max(end - overlap, 0)
NextStart(end, ov) == Max(end - ov, 0)

\* chunk = text[start:end].strip(); if chunk: chunks.append((chunk, start, end))
Emit(cks, txt, st, end) ==
    LET chunk == Strip(PySlice(txt, st, end))
    IN IF chunk # <<>>
          THEN Append(cks, [text |-> chunk, start |-> st, end |-> end])
          ELSE cks

\* one pass through the body of the while loop
ChunkBody(txt, cs, ov, st, cks) ==
    LET n == Len(txt)
        end == WindowEnd(st, cs, n)
    IN [chunks |-> Emit(cks, txt, st, end),
        done |-> (end = n),
        start |-> IF end = n THEN st ELSE NextStart(end, ov)]

\* text = text.strip(); if n == 0: return []; start = 0
ChunkStart(t) ==
    /\ hstate = "ok"
    /\ pc \in {"idle", "done"}
    /\ text' = Strip(t)
    /\ start' = 0
    /\ chunks' = <<>>
    /\ pc' = IF Len(Strip(t)) = 0 THEN "done" ELSE "loop"
    /\ UNCHANGED <<handlerVars, ingestVars, filterVars>>
    /\ UNCHANGED <<parseVars, profileVars>>
    /\ UNCHANGED <<listVars, seniorityVars>>

\* one iteration of `while start < n`
ChunkIter ==
    /\ pc = "loop"
    /\ start < Len(text)
    /\ LET r == ChunkBody(text, chunk_size, chunk_overlap, start, chunks)
       IN /\ chunks' = r.chunks
          /\ start' = r.start
          /\ pc' = IF r.done THEN "done" ELSE "loop"
    /\ UNCHANGED <<text, handlerVars, ingestVars, filterVars>>
    /\ UNCHANGED <<parseVars, profileVars>>
    /\ UNCHANGED <<listVars, seniorityVars>>

\* the loop condition `start < n` fails: return chunks
ChunkExit ==
    /\ pc = "loop"
    /\ ~(start < Len(text))
    /\ pc' = "done"
    /\ UNCHANGED <<text, start, chunks, handlerVars, ingestVars, filterVars>>
    /\ UNCHANGED <<parseVars, profileVars>>
    /\ UNCHANGED <<listVars, seniorityVars>>

\* _chunk_text as a function, for the callers that use its result
RECURSIVE ChunkLoop(_, _, _, _, _, _)
ChunkLoop(txt, cs, ov, st, cks, fuel) ==
    IF ~(st < Len(txt)) \/ fuel = 0 THEN cks
    ELSE LET r == ChunkBody(txt, cs, ov, st, cks)
         IN IF r.done THEN r.chunks
            ELSE ChunkLoop(txt, cs, ov, r.start, r.chunks, fuel - 1)

ChunkText(t, cs, ov) ==
    LET txt == Strip(t)
    IN IF Len(txt) = 0 THEN <<>>
       ELSE ChunkLoop(txt, cs, ov, 0, <<>>, Len(txt) + 1)

\* ------------------------------------------------------------------------
\* Properties of the segmenter
\* ------------------------------------------------------------------------
Covered(c, p) == c.start <= p /\ p < c.end

\* the window that begins at offset st holds no non-whitespace character
BlankWindow(st) == Strip(PySlice(text, st, WindowEnd(st, chunk_size, Len(text)))) = <<>>

\* C1: construction with chunk_overlap >= chunk_size raises (ValueError, the
\* configuration error of the code) and nothing is processed afterwards;
\* construction with chunk_overlap < chunk_size succeeds and stores both
\* arguments.
C1_ConstructorValidates ==
    (hstate # "none") =>
        /\ (hstate = "raised") <=> (args[2] >= args[1])
        /\ (hstate = "raised") =>
              /\ error = "ValueError"
              /\ pc = "idle" /\ text = <<>> /\ chunks = <<>>
        /\ (hstate = "ok") =>
              /\ error = "none"
              /\ chunk_size = args[1] /\ chunk_overlap = args[2]

C1_Witness == hstate = "raised" /\ args = <<2, 2>>

\* C2 (as claimed): for every accepted configuration, zero and negative
\* values included, the chunk sequence is non-empty iff the trimmed text is.
C2_NonEmptyIffTextNonEmpty ==
    (pc = "done") => ((chunks # <<>>) <=> (Len(text) > 0))

\* C3 (as claimed): every chunk has 0 <= start < end <= len(text) and its
\* text is exactly the characters at [start, end) of the trimmed page text.
C3_ChunkIsRawWindow ==
    \A i \in 1..Len(chunks) :
        LET c == chunks[i]
        IN /\ 0 <= c.start /\ c.start < c.end /\ c.end <= Len(text)
           /\ c.text = SubSeq(text, c.start + 1, c.end)

\* C3 (amended): every chunk has 0 <= start and end <= len(text), with
\* start < end whenever chunk_size is positive, and its text is the window
\* text[start:end] with leading and trailing whitespace removed.
C3_ChunkIsTrimmedWindow ==
    \A i \in 1..Len(chunks) :
        LET c == chunks[i]
            hi == IF c.end < 0 THEN Max(c.end + Len(text), 0) ELSE c.end
            window == SubSeq(text, c.start + 1, hi)
            keep == {j \in 1..Len(window) : window[j] \notin Whitespace}
        IN /\ 0 <= c.start /\ c.end <= Len(text)
           /\ (chunk_size >= 1) => (c.start < c.end)
           /\ keep # {}
           /\ \E lo \in keep, up \in keep :
                 /\ \A j \in keep : lo <= j /\ j <= up
                 /\ c.text = SubSeq(window, lo, up)

C3_Witness ==
    /\ pc = "done" /\ chunk_size >= 1
    /\ \E i \in 1..Len(chunks) :
          chunks[i].text # SubSeq(text, chunks[i].start + 1, chunks[i].end)

\* C4 (as claimed): each chunk starts `overlap` characters before the end of
\* the chunk emitted before it, also across an all-whitespace window, and
\* only the final chunk's window is shorter than chunk_size.
C4_ConsecutiveOverlapExact ==
    \A i \in 1..(Len(chunks) - 1) :
        /\ chunks[i + 1].start = chunks[i].end - chunk_overlap
        /\ chunks[i].end - chunks[i].start = chunk_size

\* C4 (amended): between two consecutive emitted chunks lie k >= 0 windows
\* that were skipped because they hold only whitespace; the later chunk
\* starts at earlier.end - overlap + k * (chunk_size - overlap), so the two
\* share exactly `overlap` characters only when k = 0. Every chunk but the
\* last has a window of exactly chunk_size characters.
C4_ConsecutiveOverlapUpToBlankWindows ==
    \A i \in 1..(Len(chunks) - 1) :
        LET step == chunk_size - chunk_overlap
            first == chunks[i].end - chunk_overlap
        IN /\ chunks[i].end - chunks[i].start = chunk_size
           /\ \E k \in 0..Len(text) :
                 /\ chunks[i + 1].start = first + k * step
                 /\ \A j \in 0..(k - 1) : BlankWindow(first + j * step)
                 /\ ~BlankWindow(first + k * step)

C4_Witness ==
    /\ pc = "done" /\ Len(chunks) >= 2 /\ chunk_overlap >= 0
    /\ chunks[2].start # chunks[1].end - chunk_overlap

\* C5 (as claimed): for every accepted configuration and non-empty trimmed
\* text the chunks cover the text: the first starts at 0, the last ends at
\* len(text), and every position lies in some chunk's [start, end).
C5_FullCoverage ==
    (pc = "done" /\ Len(text) > 0) =>
        /\ chunks # <<>>
        /\ chunks[1].start = 0
        /\ chunks[Len(chunks)].end = Len(text)
        /\ \A p \in 0..(Len(text) - 1) :
              \E i \in 1..Len(chunks) : Covered(chunks[i], p)

\* C6: _chunk_text terminates for every accepted configuration: the window
\* start strictly increases on every non-final iteration, and a started
\* loop always returns.
C6_Terminates ==
    /\ [][(pc = "loop" /\ pc' = "loop") => (start' > start)]_vars
    /\ (pc = "loop") ~> (pc = "done")

C6_Witness == pc = "done" /\ Len(chunks) >= 3 /\ start > 0

\* ------------------------------------------------------------------------
\* Characters
\* ------------------------------------------------------------------------
Digits == <<"0", "1", "2", "3", "4", "5", "6", "7", "8", "9">>

UpperLetters == <<"A", "B", "C", "D", "E", "F", "G", "H", "I", "J", "K", "L", "M",
                  "N", "O", "P", "Q", "R", "S", "T", "U", "V", "W", "X", "Y", "Z">>

LowerLetters == <<"a", "b", "c", "d", "e", "f", "g", "h", "i", "j", "k", "l", "m",
                  "n", "o", "p", "q", "r", "s", "t", "u", "v", "w", "x", "y", "z">>

\* the characters of the model in code point order; "NUL" is U+0000,
\* "ENDASH" U+2013 and "BULLET" U+2022
AsciiChars ==
    <<"NUL", "\t", "\n", " ", "!", "#", "$", "%", "&", "'", "(", ")", "*", "+", ",",
      "-", ".", "/">> \o Digits \o <<":", ";", "<", "=", ">", "?", "@">>
        \o UpperLetters \o <<"[", "]", "^", "_">> \o LowerLetters
        \o <<"{", "|", "}", "~", "ENDASH", "BULLET">>

Range(s) == {s[i] : i \in 1..Len(s)}

IsDigit(c) == c \in Range(Digits)

Ord(c) == CHOOSE i \in 1..Len(AsciiChars) : AsciiChars[i] = c

\* str.lower() of one character
LowerChar(c) ==
    IF c \in Range(UpperLetters)
       THEN LowerLetters[CHOOSE i \in 1..26 : UpperLetters[i] = c]
       ELSE c

\* str.lower()
Lower(s) == [i \in 1..Len(s) |-> LowerChar(s[i])]

\* str(n) of a non-negative int
RECURSIVE IntToStr(_)
IntToStr(n) ==
    IF n < 10 THEN <<Digits[n + 1]>>
    ELSE IntToStr(n \div 10) \o <<Digits[(n % 10) + 1]>>

\* a < b for two strings (sorted() on the paths of one directory)
RECURSIVE StrLess(_, _)
StrLess(a, b) ==
    IF b = <<>> THEN FALSE
    ELSE IF a = <<>> THEN TRUE
    ELSE IF a[1] # b[1] THEN Ord(a[1]) < Ord(b[1])
    ELSE StrLess(Tail(a), Tail(b))

\* ------------------------------------------------------------------------
\* Uploaded files: DataUploadHandler._save_one
\* ------------------------------------------------------------------------
FileNames == {<<"C", "V", ".", "P", "D", "F">>, <<"c", "v", ".", "p", "d", "f">>, <<"n", "o", "t", "e", "s", ".", "t", "x", "t">>}

\* a document is its raw bytes and the page texts PyMuPDF extracts from them
Docs ==
    {[bytes |-> <<"d", "1">>, pages |-> <<<<"a", "b", " ", "a">>, <<" ", "b", "NUL">>>>],
     [bytes |-> <<"d", "2">>, pages |-> <<<<"a", " ", " ", "b">>, <<" ", " ">>, <<"b", "a", "b">>>>]}

\* dest = base_dir / filename, opened "wb": a file of that name is replaced
SaveOne(f, d) ==
    /\ uploads' = {u \in uploads : u.name # f} \cup {[name |-> f, doc |-> d]}
    /\ UNCHANGED <<handlerVars, chunkVars, store, ingestLog, filterVars>>
    /\ UNCHANGED <<parseVars, profileVars>>
    /\ UNCHANGED <<listVars, seniorityVars>>

\* ------------------------------------------------------------------------
\* PdfHandler.readPDF
\* ------------------------------------------------------------------------
\* text.replace("\x00", "").strip() for every page, numbered from 1
ReadPages(d) ==
    [i \in 1..Len(d.pages) |->
        [page_no |-> i,
         text |-> Strip(SelectSeq(d.pages[i], LAMBDA c : c # "NUL"))]]

\* hashlib.sha256(bytes).hexdigest(): one digest per byte string
BuildDocumentId(d) == <<"s", "h", "a", ":">> \o d.bytes

MutPageRecords(f, d, page, cs, ov) ==
    LET cks == ChunkText(page.text, cs, ov)
    IN [idx \in 1..Len(cks) |->
          [text |-> cks[idx].text,
           metadata |-> [document_id |-> BuildDocumentId(d),
                         file_name |-> f,
                         page_no |-> page.page_no,
                         chunk_index |-> idx - 1,
                         char_start |-> cks[idx].start,
                         char_end |-> cks[idx].end]]]

\* the records of one page: enumerate(self._chunk_text(...), start=1)
\* (meta also carries the fields of the profile, those of ExtractProfile;
\* the stable point id and the upsert read only the fields kept here)
PageRecords(f, d, page, cs, ov) ==
    LET cks == ChunkText(page.text, cs, ov)
    IN [idx \in 1..Len(cks) |->
          [text |-> cks[idx].text,
           metadata |-> [document_id |-> BuildDocumentId(d),
                         file_name |-> f,
                         page_no |-> page.page_no,
                         chunk_index |-> idx,
                         char_start |-> cks[idx].start,
                         char_end |-> cks[idx].end]]]

RECURSIVE ReadPDFFrom(_, _, _, _, _)
ReadPDFFrom(f, d, i, cs, ov) ==
    LET pages == ReadPages(d)
    IN IF i > Len(pages) THEN <<>>
       ELSE PageRecords(f, d, pages[i], cs, ov) \o ReadPDFFrom(f, d, i + 1, cs, ov)

ReadPDF(f, d, cs, ov) == ReadPDFFrom(f, d, 1, cs, ov)

\* ------------------------------------------------------------------------
\* QdrantHandler._stable_pid / upsert_items
\* ------------------------------------------------------------------------
BatchSize == 128

MutStablePid(meta) ==
    meta.document_id \o <<":", ":">> \o meta.file_name
        \o <<":", ":", "p">> \o IntToStr(meta.page_no)

\* uuid5(NAMESPACE_URL, basis): one identifier per basis string
StablePid(meta) ==
    meta.document_id \o <<":", ":">> \o meta.file_name
        \o <<":", ":", "p">> \o IntToStr(meta.page_no)
        \o <<":", ":", "c">> \o IntToStr(meta.chunk_index)

PidHuman(meta) ==
    meta.file_name \o <<":", ":", "p">> \o IntToStr(meta.page_no)
        \o <<":", ":", "c">> \o IntToStr(meta.chunk_index)

\* the PointStruct built for one item
PointOf(it) ==
    [id |-> StablePid(it.metadata),
     payload |-> [meta |-> it.metadata,
                  pid_human |-> PidHuman(it.metadata),
                  text |-> it.text]]

\* client.upsert: a point replaces the stored point of the same id
RECURSIVE UpsertPoints(_, _)
UpsertPoints(st, points) ==
    IF points = <<>> THEN st
    ELSE UpsertPoints({p \in st : p.id # Head(points).id} \cup {Head(points)},
                      Tail(points))

\* for batch in _batches(items, batch_size): build the points, upsert them
RECURSIVE UpsertItems(_, _)
UpsertItems(st, items) ==
    IF items = <<>> THEN st
    ELSE LET batch == SubSeq(items, 1, Min(BatchSize, Len(items)))
             rest == SubSeq(items, Min(BatchSize, Len(items)) + 1, Len(items))
             points == [i \in 1..Len(batch) |-> PointOf(batch[i])]
         IN UpsertItems(UpsertPoints(st, points), rest)

\* ------------------------------------------------------------------------
\* RagHandler.updateQDrant
\* ------------------------------------------------------------------------
MaxIngestCount == 2

\* Path.suffix.lower(): from the last dot of the name on
SuffixLower(f) ==
    LET dots == {i \in 2..Len(f) : f[i] = "."}
    IN IF dots = {} THEN <<>>
       ELSE Lower(SubSeq(f, CHOOSE i \in dots : \A j \in dots : j <= i, Len(f)))

Pdfs(ups) == {u \in ups : SuffixLower(u.name) = <<".", "p", "d", "f">>}

\* for pdf_path in sorted(pdfs): readPDF, then upsert_items
RECURSIVE IngestAll(_, _, _, _)
IngestAll(st, pdfs, cs, ov) ==
    IF pdfs = {} THEN st
    ELSE LET u == CHOOSE x \in pdfs : \A y \in pdfs : x = y \/ StrLess(x.name, y.name)
         IN IngestAll(UpsertItems(st, ReadPDF(u.name, u.doc, cs, ov)),
                      pdfs \ {u}, cs, ov)

PointsFor(st, f, d) ==
    {p \in st : p.payload.meta.file_name = f
                /\ p.payload.meta.document_id = BuildDocumentId(d)}

\* ingestLog remembers, for every (file name, document) ingested so far, how
\* often it was ingested and the point ids the store held for it after the
\* first time
LogIngest(log, st, pdfs) ==
    LET keys == {<<u.name, u.doc>> : u \in pdfs}
    IN [k \in DOMAIN log \cup keys |->
          IF k \notin keys THEN log[k]
          ELSE IF k \in DOMAIN log
                  THEN [log[k] EXCEPT !.count = Min(@ + 1, MaxIngestCount)]
                  ELSE [count |-> 1,
                        first |-> {p.id : p \in PointsFor(st, k[1], k[2])}]]

UpdateQDrant ==
    /\ hstate = "ok"
    /\ LET pdfs == Pdfs(uploads)
       IN IF pdfs = {}
             THEN UNCHANGED <<store, ingestLog>>
             ELSE /\ store' = IngestAll(store, pdfs, chunk_size, chunk_overlap)
                  /\ ingestLog' = LogIngest(ingestLog, store', pdfs)
    /\ UNCHANGED <<handlerVars, chunkVars, uploads, filterVars>>
    /\ UNCHANGED <<parseVars, profileVars>>
    /\ UNCHANGED <<listVars, seniorityVars>>

\* C7: re-ingesting a byte-identical document under the same file name
\* overwrites: after any number of ingestions the store holds, for every
\* ingested (file name, document), exactly one point per chunk record of
\* readPDF, with the point ids it held after the first ingestion, and no two
\* stored points share an id.
C7_ReingestOverwrites ==
    /\ \A p \in store, q \in store : (p.id = q.id) => (p = q)
    /\ \A k \in DOMAIN ingestLog :
          LET pts == PointsFor(store, k[1], k[2])
              pages == ReadPages(k[2])
              nChunks == [i \in 1..Len(pages) |->
                            Len(ChunkText(pages[i].text, chunk_size, chunk_overlap))]
          IN /\ {p.id : p \in pts} = ingestLog[k].first
             /\ \A i \in 1..Len(pages) :
                   \A idx \in 1..nChunks[i] :
                      Cardinality({p \in pts : p.payload.meta.page_no = i
                                      /\ p.payload.meta.chunk_index = idx}) = 1
             /\ \A p \in pts :
                   /\ p.payload.meta.page_no \in 1..Len(pages)
                   /\ p.payload.meta.chunk_index
                         \in 1..nChunks[p.payload.meta.page_no]

C7_Witness ==
    \E k \in DOMAIN ingestLog :
        /\ ingestLog[k].count >= 2
        /\ Cardinality(PointsFor(store, k[1], k[2])) >= 3
        /\ \E p \in PointsFor(store, k[1], k[2]) : p.payload.meta.chunk_index >= 2

\* C25: in the records readPDF returns for one document the pages come in
\* ascending order and the chunk_index values of each page are 1..k without
\* gaps in emission order, so no two records share (page_no, chunk_index),
\* no two records get the same point identifier basis, and upserting the
\* records of one ingestion stores one point per record.
C25_ChunkIndexesUnique ==
    (hstate = "ok") =>
        \A u \in Pdfs(uploads) :
            \E recs \in {ReadPDF(u.name, u.doc, chunk_size, chunk_overlap)} :
                /\ \A i \in 1..Len(recs) :
                      IF i = 1 \/ recs[i - 1].metadata.page_no # recs[i].metadata.page_no
                         THEN /\ recs[i].metadata.chunk_index = 1
                              /\ i > 1 => recs[i - 1].metadata.page_no < recs[i].metadata.page_no
                         ELSE recs[i].metadata.chunk_index
                                  = recs[i - 1].metadata.chunk_index + 1
                /\ \A i \in 1..Len(recs), j \in 1..Len(recs) :
                      (i # j) =>
                          /\ <<recs[i].metadata.page_no, recs[i].metadata.chunk_index>>
                                # <<recs[j].metadata.page_no, recs[j].metadata.chunk_index>>
                          /\ StablePid(recs[i].metadata) # StablePid(recs[j].metadata)
                /\ Cardinality(UpsertItems({}, recs)) = Len(recs)

C25_Witness ==
    /\ hstate = "ok"
    /\ \E u \in Pdfs(uploads) :
          \E recs \in {ReadPDF(u.name, u.doc, chunk_size, chunk_overlap)} :
             /\ <<u.name, u.doc>> \in DOMAIN ingestLog
             /\ \E i \in 1..Len(recs), j \in 1..Len(recs) :
                   /\ recs[i].metadata.page_no = recs[j].metadata.page_no
                   /\ recs[i].metadata.chunk_index = 1
                   /\ recs[j].metadata.chunk_index >= 2
             /\ \E i \in 1..Len(recs), j \in 1..Len(recs) :
                   recs[i].metadata.page_no # recs[j].metadata.page_no
             /\ Cardinality(PointsFor(store, u.name, u.doc)) = Len(recs)

\* ------------------------------------------------------------------------
\* Regular expression primitives (Python re, offsets 0-based)
\* ------------------------------------------------------------------------
Least(set) == CHOOSE i \in set : \A j \in set : i <= j

Greatest(set) == CHOOSE i \in set : \A j \in set : j <= i

Letters == Range(UpperLetters) \cup Range(LowerLetters)

\* \w
WordChars == Letters \cup Range(Digits) \cup {"_"}

IsWordChar(c) == c \in WordChars

\* the character at offset p is a word character
WordAt(s, p) == p >= 0 /\ p < Len(s) /\ IsWordChar(s[p + 1])

\* \b at offset p
Boundary(s, p) == WordAt(s, p - 1) # WordAt(s, p)

\* the literal lit at offset p
LitAt(s, p, lit) ==
    /\ p + Len(lit) <= Len(s)
    /\ \A i \in 1..Len(lit) : s[p + i] = lit[i]

\* the literal lit at offset p under re.I
LitAtI(s, p, lit) ==
    /\ p + Len(lit) <= Len(s)
    /\ \A i \in 1..Len(lit) : LowerChar(s[p + i]) = LowerChar(lit[i])

\* length of the longest run of characters of class cls from offset p on
RunLen(s, p, cls) ==
    LET stops == {i \in p..(Len(s) - 1) : s[i + 1] \notin cls}
    IN IF stops = {} THEN Len(s) - p ELSE Least(stops) - p

\* int(digits)
RECURSIVE ParseInt(_)
ParseInt(ds) ==
    IF ds = <<>> THEN 0
    ELSE 10 * ParseInt(SubSeq(ds, 1, Len(ds) - 1))
            + (CHOOSE i \in 0..9 : Digits[i + 1] = ds[Len(ds)])

\* s.strip(chars)
StripChars(s, chars) ==
    LET keep == {i \in 1..Len(s) : s[i] \notin chars}
    IN IF keep = {} THEN <<>> ELSE SubSeq(s, Least(keep), Greatest(keep))

\* ------------------------------------------------------------------------
\* QdrantHandler.parse_nl_filters: the patterns
\* ------------------------------------------------------------------------
SENIORITY_WORDS ==
    <<<<"i", "n", "t", "e", "r", "n">>, <<"j", "u", "n", "i", "o", "r">>, <<"j", "r">>, <<"a", "s", "s", "o", "c", "i", "a", "t", "e">>, <<"m", "i", "d">>, <<"s", "e", "n", "i", "o", "r">>, <<"s", "r">>, <<"l", "e", "a", "d">>,
      <<"p", "r", "i", "n", "c", "i", "p", "a", "l">>, <<"s", "t", "a", "f", "f">>, <<"m", "a", "n", "a", "g", "e", "r">>, <<"h", "e", "a", "d">>, <<"d", "i", "r", "e", "c", "t", "o", "r">>, <<"v", "p">>, <<"c", "h", "i", "e", "f">>,
      <<"c", "t", "o">>, <<"c", "p", "o">>, <<"c", "o", "o">>, <<"c", "e", "o">>>>

\* YOE_PAT = (?P<num>\d{1,2})\s*\+?\s*(?:years|yrs|yoe)\b  (re.I)
YoeUnits == <<<<"y", "e", "a", "r", "s">>, <<"y", "r", "s">>, <<"y", "o", "e">>>>

\* the match of YOE_PAT that begins at offset p with d digits, if any
YoeAt(s, p, d) ==
    /\ p + d <= Len(s)
    /\ \A i \in 1..d : IsDigit(s[p + i])
    /\ LET a == p + d + RunLen(s, p + d, Whitespace)
           b == IF LitAt(s, a, <<"+">>) THEN a + 1 ELSE a
           c == b + RunLen(s, b, Whitespace)
       IN \E u \in 1..Len(YoeUnits) :
             LitAtI(s, c, YoeUnits[u]) /\ Boundary(s, c + Len(YoeUnits[u]))

\* YOE_PAT.search(qt): the digits of the leftmost match, <<>> without one
YoeSearch(s) ==
    LET hits == {p \in 0..Len(s) : YoeAt(s, p, 2) \/ YoeAt(s, p, 1)}
    IN IF hits = {} THEN <<>>
       ELSE LET p == Least(hits)
                d == IF YoeAt(s, p, 2) THEN 2 ELSE 1
            IN <<SubSeq(s, p + 1, p + d)>>

\* re.search(rf"\b{w}\b", qt, re.I)
WordSearch(s, w) ==
    \E p \in 0..Len(s) :
        Boundary(s, p) /\ LitAtI(s, p, w) /\ Boundary(s, p + Len(w))

\* CITY_COUNTRY_PAT = \b(?:in|from|at)\s+(?P<place>[A-Za-z .'-]+)\b  (re.I)
LocKeywords == <<<<"i", "n">>, <<"f", "r", "o", "m">>, <<"a", "t">>>>

\* [A-Za-z .'-]
PlaceChars == Letters \cup {" ", ".", "'", "-"}

\* the ways CITY_COUNTRY_PAT matches at offset p: <<k, m, r>> for k
\* whitespace characters after the keyword and a place of m characters that
\* begins at offset r
LocationAt(s, p) ==
    LET kws == {i \in 1..Len(LocKeywords) : LitAtI(s, p, LocKeywords[i])}
    IN IF ~Boundary(s, p) \/ kws = {} THEN {}
       ELSE LET q == p + Len(LocKeywords[Least(kws)])
                ws == RunLen(s, q, Whitespace)
            IN UNION {{<<k, m, q + k>> :
                          m \in {x \in 1..RunLen(s, q + k, PlaceChars) :
                                    Boundary(s, q + k + x)}} :
                      k \in 1..ws}

\* CITY_COUNTRY_PAT.search(qt): group "place" of the leftmost match and the
\* offset it begins at, the quantifiers greedy; <<>> without a match
LocationSearch(s) ==
    LET hits == {p \in 0..Len(s) : LocationAt(s, p) # {}}
    IN IF hits = {} THEN <<>>
       ELSE LET ways == LocationAt(s, Least(hits))
                k == Greatest({w[1] : w \in ways})
                m == Greatest({w[2] : w \in {x \in ways : x[1] = k}})
                r == (CHOOSE w \in ways : w[1] = k /\ w[2] = m)[3]
            IN <<[place |-> SubSeq(s, r + 1, r + m), at |-> r]>>

\* FILE_PAT = \bfile\s*:\s*(?P<fname>[\w.\- ]+\.pdf)\b  (re.I)
\* [\w.\- ]
FnameChars == WordChars \cup {".", "-", " "}

FileAt(s, p) ==
    IF ~(Boundary(s, p) /\ LitAtI(s, p, <<"f", "i", "l", "e">>)) THEN {}
    ELSE LET a == p + 4 + RunLen(s, p + 4, Whitespace)
         IN IF ~LitAt(s, a, <<":">>) THEN {}
            ELSE LET ws == RunLen(s, a + 1, Whitespace)
                 IN UNION {{<<k, m, a + 1 + k>> :
                               m \in {x \in 1..RunLen(s, a + 1 + k, FnameChars) :
                                         /\ LitAtI(s, a + 1 + k + x, <<".", "p", "d", "f">>)
                                         /\ Boundary(s, a + 1 + k + x + 4)}} :
                           k \in 0..ws}

\* FILE_PAT.search(qt): group "fname" of the leftmost match
FileSearch(s) ==
    LET hits == {p \in 0..Len(s) : FileAt(s, p) # {}}
    IN IF hits = {} THEN <<>>
       ELSE LET ways == FileAt(s, Least(hits))
                k == Greatest({w[1] : w \in ways})
                m == Greatest({w[2] : w \in {x \in ways : x[1] = k}})
                r == (CHOOSE w \in ways : w[1] = k /\ w[2] = m)[3]
            IN <<SubSeq(s, r + 1, r + m + 4)>>

\* the trigger phrases of the skill extraction, in the order of the loop
SkillTriggers == <<<<"w", "i", "t", "h">>, <<"h", "a", "v", "i", "n", "g">>, <<"s", "k", "i", "l", "l", "s">>, <<"s", "k", "i", "l", "l">>, <<"e", "x", "p", "e", "r", "t", " ", "i", "n">>, <<"u", "s", "i", "n", "g">>>>

\* [A-Za-z0-9+/#., &\-]
SkillChars ==
    Letters \cup Range(Digits) \cup {"+", "/", "#", ".", ",", " ", "&", "-"}

\* rf"{kw}\s+([A-Za-z0-9+/#., &\-]+)" at offset p: the offsets where
\* group 1 may begin
SkillAt(s, p, kw) ==
    IF ~LitAtI(s, p, kw) THEN {}
    ELSE LET q == p + Len(kw)
         IN {q + k : k \in {x \in 1..RunLen(s, q, Whitespace) :
                               RunLen(s, q + x, SkillChars) >= 1}}

\* pat.search(qt): group 1 of the leftmost match
SkillSearch(s, kw) ==
    LET hits == {p \in 0..Len(s) : SkillAt(s, p, kw) # {}}
    IN IF hits = {} THEN <<>>
       ELSE LET r == Greatest(SkillAt(s, Least(hits), kw))
            IN <<SubSeq(s, r + 1, r + RunLen(s, r, SkillChars))>>

StopWords == <<<<"f", "o", "r">>, <<"i", "n">>, <<"o", "f">>, <<"a", "n", "d", " ", "t", "h", "e", "n">>, <<"w", "h", "o">>, <<"t", "h", "a", "t">>, <<"w", "h", "e", "r", "e">>>>

\* re.split(r"\b(?:for|in|of|and then|who|that|where)\b", chunk, 1, re.I)[0]
BeforeStopWord(chunk) ==
    LET hits == {p \in 0..Len(chunk) :
                    /\ Boundary(chunk, p)
                    /\ \E i \in 1..Len(StopWords) :
                          /\ LitAtI(chunk, p, StopWords[i])
                          /\ Boundary(chunk, p + Len(StopWords[i]))}
    IN IF hits = {} THEN chunk ELSE SubSeq(chunk, 1, Least(hits))

TermDelims == <<<<",">>, <<"/">>, <<" ", "a", "n", "d", " ">>>>

\* re.split(r",|/| and ", chunk)
RECURSIVE SplitTerms(_)
SplitTerms(chunk) ==
    LET hits == {p \in 0..Len(chunk) :
                    \E i \in 1..Len(TermDelims) : LitAt(chunk, p, TermDelims[i])}
    IN IF hits = {} THEN <<chunk>>
       ELSE LET p == Least(hits)
                i == Least({j \in 1..Len(TermDelims) : LitAt(chunk, p, TermDelims[j])})
            IN <<SubSeq(chunk, 1, p)>>
                  \o SplitTerms(SubSeq(chunk, p + Len(TermDelims[i]) + 1, Len(chunk)))

\* the terms one trigger phrase contributes:
\* [s.strip(" ,.&") for s in re.split(...) if s.strip()]
SkillTerms(s, kw) ==
    LET mm == SkillSearch(s, kw)
    IN IF mm = <<>> THEN <<>>
       ELSE LET parts == SelectSeq(SplitTerms(BeforeStopWord(mm[1])),
                                   LAMBDA x : Strip(x) # <<>>)
            IN [i \in 1..Len(parts) |-> StripChars(parts[i], {" ", ",", ".", "&"})]

RECURSIVE MutCollectSkills(_, _)
MutCollectSkills(s, i) ==
    IF i > Len(SkillTriggers) THEN <<>>
    ELSE IF SkillSearch(s, SkillTriggers[i]) # <<>>
            THEN SkillTerms(s, SkillTriggers[i])
            ELSE MutCollectSkills(s, i + 1)

\* for kw in [...]: ... skills.extend(...), from the i-th trigger phrase on
RECURSIVE CollectSkills(_, _)
CollectSkills(s, i) ==
    IF i > Len(SkillTriggers) THEN <<>>
    ELSE SkillTerms(s, SkillTriggers[i]) \o CollectSkills(s, i + 1)

\* ------------------------------------------------------------------------
\* QdrantHandler.parse_nl_filters
\* ------------------------------------------------------------------------
\* a key of the dict is absent (<<>>) or holds one value (<<v>>)
EmptyFilt ==
    [yoe |-> <<>>, seniority |-> <<>>, city |-> <<>>, country |-> <<>>,
     should |-> <<>>, file_name |-> <<>>, normalized_keywords |-> <<>>]

YoeFilter(f, s) ==
    LET m == YoeSearch(s)
    IN IF m = <<>> THEN f
       ELSE [f EXCEPT !.yoe = <<[gte |-> ParseInt(m[1])]>>]

\* {"jr": "junior", "sr": "senior"}.get(w.lower(), w.lower())
NormSeniority(w) ==
    IF Lower(w) = <<"j", "r">> THEN <<"j", "u", "n", "i", "o", "r">>
    ELSE IF Lower(w) = <<"s", "r">> THEN <<"s", "e", "n", "i", "o", "r">>
    ELSE Lower(w)

SeniorityFilter(f, s) ==
    LET hits == {i \in 1..Len(SENIORITY_WORDS) : WordSearch(s, SENIORITY_WORDS[i])}
    IN IF hits = {} THEN f
       ELSE [f EXCEPT !.seniority = <<[eq |-> NormSeniority(SENIORITY_WORDS[Least(hits)])]>>]

MutPlaceFilter(f, place) ==
    [f EXCEPT !.city = <<[eq |-> place]>>,
              !.should = <<<<[key |-> "country", eq |-> place]>>>>]

\* the branches on `"," in place`
PlaceFilter(f, place) ==
    IF "," \in Range(place)
       THEN LET p == Least({i \in 1..Len(place) : place[i] = ","})
                city == Strip(SubSeq(place, 1, p - 1))
                country == Strip(SubSeq(place, p + 1, Len(place)))
                f1 == IF city # <<>> THEN [f EXCEPT !.city = <<[eq |-> city]>>] ELSE f
            IN IF country # <<>>
                  THEN [f1 EXCEPT !.country = <<[eq |-> country]>>]
                  ELSE f1
       ELSE [f EXCEPT !.should = <<<<[key |-> "city", eq |-> place],
                                     [key |-> "country", eq |-> place]>>>>]

LocationFilter(f, s) ==
    LET m == LocationSearch(s)
    IN IF m = <<>> THEN f ELSE PlaceFilter(f, Strip(m[1].place))

MutFileFilter(f, s) ==
    LET m == FileSearch(s)
    IN IF m = <<>> THEN f
       ELSE [f EXCEPT !.file_name = <<[eq |-> Lower(Strip(m[1]))]>>]

FileFilter(f, s) ==
    LET m == FileSearch(s)
    IN IF m = <<>> THEN f
       ELSE [f EXCEPT !.file_name = <<[eq |-> Strip(m[1])]>>]

SkillFilter(f, s) ==
    LET skills == CollectSkills(s, 1)
    IN IF skills = <<>> THEN f
       ELSE [f EXCEPT !.normalized_keywords =
                          <<[any |-> [i \in 1..Len(skills) |-> Lower(skills[i])]]>>]

ParseFilters(s) ==
    SkillFilter(FileFilter(LocationFilter(SeniorityFilter(YoeFilter(EmptyFilt, s), s), s), s), s)

\* the queries of the model: up to MaxQueryPhrases phrases joined by single
\* spaces, and some whole queries
Phrases == <<<<"d", "e", "v", "e", "l", "o", "p", "e", "r">>, <<"i", "n", " ", "P", "a", "r", "i", "s">>, <<"i", "n", " ", "D", "u", "b", "l", "i", "n", ",", " ", "I", "r", "e", "l", "a", "n", "d">>, <<"w", "i", "t", "h", " ", "p", "y", "t", "h", "o", "n">>,
             <<"u", "s", "i", "n", "g", " ", "d", "o", "c", "k", "e", "r", ",", " ", "a", "w", "s">>>>

RECURSIVE PhraseQueries(_)
PhraseQueries(k) ==
    IF k = 1 THEN Range(Phrases)
    ELSE {q \o <<" ">> \o p : q \in PhraseQueries(k - 1), p \in Range(Phrases)}

DublinQuery == <<"N", "e", "e", "d", " ", "a", " ", "s", "e", "n", "i", "o", "r", " ", "d", "e", "v", "e", "l", "o", "p", "e", "r", " ", "i", "n", " ", "D", "u", "b", "l", "i", "n", ",", " ", "I", "r", "e", "l", "a", "n", "d", " ", "w", "i", "t", "h", " ", "5", "+", " ", "y", "e", "a", "r", "s", " ", "e", "x", "p", "e", "r", "i", "e", "n", "c", "e">>

ParisQuery == <<"d", "e", "v", "e", "l", "o", "p", "e", "r", " ", "i", "n", " ", "P", "a", "r", "i", "s">>

FileQuery == <<"f", "i", "l", "e", ":", " ", "J", "a", "n", "e", "_", "D", "o", "e", ".", "p", "d", "f">>

WholeQueries ==
    {<<>>, DublinQuery, ParisQuery, FileQuery,
     <<"S", "r", " ", "d", "e", "s", "i", "g", "n", "e", "r", " ", "f", "r", "o", "m", " ", "R", "o", "m", "e", " ", ",", " ", "I", "t", "a", "l", "y", " ", "h", "a", "v", "i", "n", "g", " ", "1", "2", " ", "y", "r", "s", " ", "o", "f", " ", "f", "i", "g", "m", "a", "/", "s", "k", "e", "t", "c", "h", " ", "a", "n", "d", " ", "c", "s", "s">>,
     <<"j", "r", " ", "d", "e", "v", " ", "a", "t", " ", " ", "(", "r", "e", "m", "o", "t", "e", ")", " ", "s", "k", "i", "l", "l", "s", ":", " ", "g", "o">>,
     <<"e", "x", "p", "e", "r", "t", " ", "i", "n", " ", "C", "+", "+", ",", " ", "r", "u", "s", "t", " ", "f", "o", "r", " ", "3", "y", "o", "e", " ", "a", "t", " ", "S", "t", ".", " ", "I", "v", "e", "s">>}

Queries == WholeQueries \cup UNION {PhraseQueries(k) : k \in 1..MaxQueryPhrases}

ParseNlFilters ==
    /\ fpc = "ready"
    /\ filt' = ParseFilters(query)
    /\ fpc' = "done"
    /\ UNCHANGED <<query, handlerVars, chunkVars, ingestVars>>
    /\ UNCHANGED <<parseVars, profileVars>>
    /\ UNCHANGED <<listVars, seniorityVars>>

\* ------------------------------------------------------------------------
\* Properties of the filter translator
\* ------------------------------------------------------------------------
PlaceNames == {<<"D", "u", "b", "l", "i", "n">>, <<"I", "r", "e", "l", "a", "n", "d">>, <<"P", "a", "r", "i", "s">>}

\* the first `in|from|at` of the query is followed by "x, y"
CommaLocationIs(q, x, y) ==
    LET heads == {p \in 0..Len(q) :
                     /\ Boundary(q, p)
                     /\ \E i \in 1..Len(LocKeywords) :
                           LitAtI(q, p, LocKeywords[i] \o <<" ">>)}
    IN /\ heads # {}
       /\ \E i \in 1..Len(LocKeywords) :
             LET phrase == LocKeywords[i] \o <<" ">> \o x \o <<",", " ">> \o y
             IN /\ LitAt(q, Least(heads), phrase)
                /\ Boundary(q, Least(heads) + Len(phrase))

\* C8 (as claimed): a location phrase `in|from|at X, Y` gives the top-level
\* predicates city = eq:X and country = eq:Y; the Dublin query gives
\* seniority = eq:senior, city = eq:Dublin, country = eq:Ireland, yoe = gte:5.
C8_CommaSplitsCityCountry ==
    (fpc = "done") =>
        /\ \A x \in PlaceNames, y \in PlaceNames :
              CommaLocationIs(query, x, y) =>
                  /\ filt.city = <<[eq |-> x]>>
                  /\ filt.country = <<[eq |-> y]>>
        /\ (query = DublinQuery) =>
              /\ filt.seniority = <<[eq |-> <<"s", "e", "n", "i", "o", "r">>]>>
              /\ filt.city = <<[eq |-> <<"D", "u", "b", "l", "i", "n">>]>>
              /\ filt.country = <<[eq |-> <<"I", "r", "e", "l", "a", "n", "d">>]>>
              /\ filt.yoe = <<[gte |-> 5]>>

\* the lower-cased terms the i-th trigger phrase captures from the query
TriggerTerms(q, i) ==
    LET ts == SkillTerms(q, SkillTriggers[i])
    IN [j \in 1..Len(ts) |-> Lower(ts[j])]

\* C9 (as claimed): only one trigger phrase, the first that matches,
\* contributes terms to normalized_keywords.
C9_FirstTriggerWins ==
    (fpc = "done") =>
        \/ /\ filt.normalized_keywords = <<>>
           /\ \A i \in 1..Len(SkillTriggers) : TriggerTerms(query, i) = <<>>
        \/ \E i \in 1..Len(SkillTriggers) :
              /\ TriggerTerms(query, i) # <<>>
              /\ filt.normalized_keywords = <<[any |-> TriggerTerms(query, i)]>>

RECURSIVE TermsBefore(_, _)
TermsBefore(q, i) ==
    IF i = 1 THEN 0 ELSE TermsBefore(q, i - 1) + Len(TriggerTerms(q, i - 1))

\* C9 (amended): extraction is cumulative: every trigger phrase that matches
\* contributes its terms, in the order of the trigger list, and
\* normalized_keywords is absent only when no trigger contributes a term.
C9_AllTriggersContribute ==
    (fpc = "done") =>
        LET total == TermsBefore(query, Len(SkillTriggers) + 1)
        IN IF total = 0 THEN filt.normalized_keywords = <<>>
           ELSE /\ Len(filt.normalized_keywords) = 1
                /\ Len(filt.normalized_keywords[1].any) = total
                /\ \A i \in 1..Len(SkillTriggers) :
                      \A j \in 1..Len(TriggerTerms(query, i)) :
                         filt.normalized_keywords[1].any[TermsBefore(query, i) + j]
                            = TriggerTerms(query, i)[j]

C9_Witness ==
    /\ fpc = "done"
    /\ \E i \in 1..Len(SkillTriggers), j \in 1..Len(SkillTriggers) :
          /\ i < j
          /\ TriggerTerms(query, i) # <<>>
          /\ TriggerTerms(query, j) # <<>>
          /\ Len(filt.normalized_keywords[1].any)
                >= Len(TriggerTerms(query, i)) + Len(TriggerTerms(query, j))

\* the place the location pattern captured is not followed by a comma
NoCommaAfterPlace(q) ==
    LET m == LocationSearch(q)
        end == m[1].at + Len(m[1].place)
        next == end + RunLen(q, end, Whitespace)
    IN m # <<>> /\ ~LitAt(q, next, <<",">>)

\* C10: a location phrase without a comma is emitted only as a should-bucket
\* holding exactly city = eq:place and country = eq:place, with no top-level
\* city or country; "developer in Paris" gives city = eq:Paris and
\* country = eq:Paris in the bucket.
C10_PlaceWithoutCommaIsShould ==
    (fpc = "done") =>
        /\ NoCommaAfterPlace(query) =>
              LET place == Strip(LocationSearch(query)[1].place)
              IN /\ filt.should = <<<<[key |-> "city", eq |-> place],
                                      [key |-> "country", eq |-> place]>>>>
                 /\ filt.city = <<>>
                 /\ filt.country = <<>>
        /\ (query = ParisQuery) =>
              filt.should = <<<<[key |-> "city", eq |-> <<"P", "a", "r", "i", "s">>],
                                [key |-> "country", eq |-> <<"P", "a", "r", "i", "s">>]>>>>

C10_Witness ==
    /\ fpc = "done" /\ query = ParisQuery
    /\ NoCommaAfterPlace(query)
    /\ filt.should # <<>>

\* C11: the query "file: Jane_Doe.pdf" is translated to a filter that holds
\* file_name = eq:Jane_Doe.pdf and nothing else: no yoe, seniority, city,
\* country, should-bucket or normalized_keywords entry.
C11_FileQueryOnlyFileName ==
    (fpc = "done" /\ query = FileQuery) =>
        filt = [EmptyFilt EXCEPT
                   !.file_name = <<[eq |-> <<"J", "a", "n", "e", "_", "D", "o", "e", ".", "p", "d", "f">>]>>]

C11_Witness == fpc = "done" /\ query = FileQuery /\ filt.file_name # <<>>

\* ------------------------------------------------------------------------
\* Python values and string methods used by the profile extractors
\* ------------------------------------------------------------------------
\* an Optional[str] is None or holds one string
None == <<>>

Some(x) == <<x>>

\* truth value of an Optional[str]: None and "" are false
Truthy(o) == o # None /\ o[1] # <<>>

\* s.lstrip(chars)
LStripChars(s, chars) ==
    LET keep == {k \in 1..Len(s) : s[k] \notin chars}
    IN IF keep = {} THEN <<>> ELSE SubSeq(s, Least(keep), Len(s))

\* s.split(sep, maxsplit) for a one-character separator
RECURSIVE PySplit(_, _, _)
PySplit(s, sep, maxsplit) ==
    IF maxsplit = 0 \/ sep \notin Range(s) THEN <<s>>
    ELSE LET p == Least({k \in 1..Len(s) : s[k] = sep})
         IN <<SubSeq(s, 1, p - 1)>>
               \o PySplit(SubSeq(s, p + 1, Len(s)), sep, maxsplit - 1)

\* [p.strip() for p in parts]
StripAll(parts) == [k \in 1..Len(parts) |-> Strip(parts[k])]

\* ISO_DATE = \b(\d{4})-(\d{2})-(\d{2})\b at offset p
IsoDateAt(s, p) ==
    /\ p + 10 <= Len(s)
    /\ Boundary(s, p)
    /\ \A k \in {1, 2, 3, 4, 6, 7, 9, 10} : IsDigit(s[p + k])
    /\ s[p + 5] = "-" /\ s[p + 8] = "-"
    /\ Boundary(s, p + 10)

\* ISO_DATE.search(s) is not None
IsoDateSearch(s) == \E p \in 0..Len(s) : IsoDateAt(s, p)

\* ["-".join(d) for d in ISO_DATE.findall(s)], scanning from offset p on: the
\* three groups of a match joined by "-" are the matched text
RECURSIVE IsoDateFindallFrom(_, _)
IsoDateFindallFrom(s, p) ==
    LET hits == {q \in p..Len(s) : IsoDateAt(s, q)}
    IN IF hits = {} THEN <<>>
       ELSE <<SubSeq(s, Least(hits) + 1, Least(hits) + 10)>>
               \o IsoDateFindallFrom(s, Least(hits) + 10)

IsoDateFindall(s) == IsoDateFindallFrom(s, 0)

\* the bullet glyphs: U+2022, "-", U+2013, "*"
BulletGlyphs == {"BULLET", "-", "ENDASH", "*"}

\* line.lstrip().startswith(("•", "-", "–", "*"))
StartsWithBullet(line) ==
    LET l == LStripChars(line, Whitespace)
    IN l # <<>> /\ l[1] \in BulletGlyphs

\* line.lstrip("•-–* ").strip()
BulletText(line) == Strip(LStripChars(line, BulletGlyphs \cup {" "}))

\* ------------------------------------------------------------------------
\* PdfHandler._parse_roles
\* ------------------------------------------------------------------------
NewRole(title, company, location, st, en) ==
    [title |-> title, company |-> company, location |-> location,
     start |-> st, end |-> en, bullets |-> <<>>]

MutRoleRetained(r) == TRUE

MutRoleRetainedTitled(r) == r.title # <<>>

\* cur.title or cur.company or cur.start or cur.end or cur.bullets
RoleRetained(r) ==
    \/ r.title # <<>>
    \/ Truthy(r.company)
    \/ Truthy(r.start)
    \/ Truthy(r.end)
    \/ r.bullets # <<>>

\* flush(): the list of roles after it; cur is None afterwards
FlushRole(rs, c) ==
    IF c # None /\ RoleRetained(c[1]) THEN Append(rs, c[1]) ELSE rs

MutIsRoleHeader(line) == ~IsoDateSearch(line)

\* "-" in line and not ISO_DATE.search(line)
IsRoleHeader(line) == "-" \in Range(line) /\ ~IsoDateSearch(line)

MutKeepFirst(old, new) == new

\* cur.start = cur.start or start
KeepFirst(old, new) == IF Truthy(old) THEN old ELSE new

MutHeaderAdvance(dated) == 1

\* `i += 1  # consume date line` when the next line holds a date, then `i += 1`
HeaderAdvance(dated) == IF dated THEN 2 ELSE 1

\* the role header branch; unpacking the split into two names raises
\* ValueError unless it has exactly two parts
HeaderStep(sec, st) ==
    LET line == sec[st.i + 1]
        parts == StripAll(PySplit(line, "-", 1))
        rest == parts[2]
        cl == StripAll(PySplit(rest, ",", 1))
        hasComma == "," \in Range(rest)
        company == IF hasComma THEN Some(cl[1])
                   ELSE IF rest # <<>> THEN Some(Strip(rest)) ELSE None
        location == IF hasComma THEN Some(cl[2]) ELSE None
        dated == st.i + 1 < Len(sec) /\ IsoDateSearch(sec[st.i + 2])
        ds == IsoDateFindall(sec[st.i + 2])
        hasDates == dated /\ Len(ds) >= 1
        newRole == NewRole(parts[1], company, location,
                           IF hasDates THEN Some(ds[1]) ELSE None,
                           IF hasDates THEN Some(ds[Len(ds)]) ELSE None)
    IN IF Len(parts) # 2 \/ (hasComma /\ Len(cl) # 2)
          THEN [st EXCEPT !.raised = TRUE]
          ELSE [i |-> st.i + HeaderAdvance(dated),
                cur |-> Some(newRole),
                roles |-> FlushRole(st.roles, st.cur),
                raised |-> FALSE]

\* the bullet branch
BulletStep(sec, st) ==
    LET line == sec[st.i + 1]
        c == IF st.cur = None THEN NewRole(<<>>, None, None, None, None)
             ELSE st.cur[1]
    IN [st EXCEPT !.i = @ + 1,
                  !.cur = Some([c EXCEPT !.bullets = Append(@, BulletText(line))])]

\* the date-only branch
DateStep(sec, st) ==
    LET line == sec[st.i + 1]
        ds == IsoDateFindall(line)
        s0 == IF ds # <<>> THEN Some(ds[1]) ELSE None
        e0 == IF ds # <<>> THEN Some(ds[Len(ds)]) ELSE None
        c == IF st.cur = None THEN NewRole(<<>>, None, None, None, None)
             ELSE st.cur[1]
    IN [st EXCEPT !.i = @ + 1,
                  !.cur = Some([c EXCEPT !.start = KeepFirst(@, s0),
                                         !.end = KeepFirst(@, e0)])]

\* one pass through the body of `while i < len(section)`
RoleStep(sec, st) ==
    LET line == sec[st.i + 1]
    IN IF IsRoleHeader(line) THEN HeaderStep(sec, st)
       ELSE IF StartsWithBullet(line) THEN BulletStep(sec, st)
       ELSE IF IsoDateSearch(line) THEN DateStep(sec, st)
       ELSE [st EXCEPT !.i = @ + 1]

\* _parse_roles as a function: the loop, then the final flush; the result is
\* the list of roles, or raised when a step raised
RECURSIVE RoleLoop(_, _)
RoleLoop(sec, st) ==
    IF st.raised THEN st
    ELSE IF st.i < Len(sec) THEN RoleLoop(sec, RoleStep(sec, st))
    ELSE [st EXCEPT !.roles = FlushRole(st.roles, st.cur), !.cur = None]

ParseRoles(sec) ==
    RoleLoop(sec, [i |-> 0, cur |-> None, roles |-> <<>>, raised |-> FALSE])

\* ------------------------------------------------------------------------
\* PdfHandler._parse_education
\* ------------------------------------------------------------------------
NewEducationItem(institution, degree, en) ==
    [institution |-> institution, degree |-> degree, start |-> None,
     end |-> en, details |-> None]

MutEduRetained(e) == e.institution # <<>> \/ Truthy(e.end)

\* cur.institution
EduRetained(e) == e.institution # <<>>

\* flush(): the list of items after it
FlushEdu(es, c) ==
    IF c # None /\ EduRetained(c[1]) THEN Append(es, c[1]) ELSE es

\* sub in s
Contains(s, sub) == \E p \in 0..Len(s) : LitAt(s, p, sub)

\* "graduated:" in line.lower()
IsGraduatedLine(line) == Contains(Lower(line), <<"g", "r", "a", "d", "u", "a", "t", "e", "d", ":">>)

\* re.fullmatch(r"\d{4}", line.strip())
IsYearLine(line) ==
    LET l == Strip(line)
    IN Len(l) = 4 /\ \A k \in 1..4 : IsDigit(l[k])

\* re.sub(r"[^0-9-]", "", s).strip()
YearOf(s) == Strip(SelectSeq(s, LAMBDA c : IsDigit(c) \/ c = "-"))

\* cur.end = year on the item in progress, or a new item without institution
SetEduEnd(c, year) ==
    IF c # None THEN Some([c[1] EXCEPT !.end = Some(year)])
    ELSE Some(NewEducationItem(<<>>, None, Some(year)))

\* one pass through the body of `while i < len(section)`; unpacking the
\* split raises ValueError unless it has two parts, and indexing the split
\* on ":" raises IndexError when it has one part
EduStep(sec, st) ==
    LET line == sec[st.i + 1]
        parts == StripAll(PySplit(line, "-", 1))
        colon == PySplit(line, ":", 1)
    IN IF IsRoleHeader(line)
          THEN IF Len(parts) # 2 THEN [st EXCEPT !.raised = TRUE]
               ELSE [i |-> st.i + 1,
                     cur |-> Some(NewEducationItem(parts[1], Some(parts[2]), None)),
                     edu |-> FlushEdu(st.edu, st.cur),
                     raised |-> FALSE]
       ELSE IF IsGraduatedLine(line)
          THEN IF Len(colon) < 2 THEN [st EXCEPT !.raised = TRUE]
               ELSE [st EXCEPT !.i = @ + 1,
                               !.cur = SetEduEnd(@, YearOf(colon[2]))]
       ELSE IF IsYearLine(line)
          THEN [st EXCEPT !.i = @ + 1, !.cur = SetEduEnd(@, Strip(line))]
       ELSE [st EXCEPT !.i = @ + 1]

RECURSIVE EduLoop(_, _)
EduLoop(sec, st) ==
    IF st.raised THEN st
    ELSE IF st.i < Len(sec) THEN EduLoop(sec, EduStep(sec, st))
    ELSE [st EXCEPT !.edu = FlushEdu(st.edu, st.cur), !.cur = None]

ParseEducation(sec) ==
    EduLoop(sec, [i |-> 0, cur |-> None, edu |-> <<>>, raised |-> FALSE])

\* ------------------------------------------------------------------------
\* The section parsers, one loop iteration at a time
\* ------------------------------------------------------------------------
MaxSectionLines == 3

\* the lines of a work experience section
RoleLines ==
    {<<"E", "n", "g", "i", "n", "e", "e", "r", " ", "-", " ", "A", "c", "m", "e", ",", " ", "B", "e", "r", "l", "i", "n">>,
     <<"2", "0", "1", "8", "-", "0", "1", "-", "0", "1", " ", "-", " ", "2", "0", "2", "0", "-", "0", "6", "-", "1", "5">>,
     <<"BULLET", " ", "B", "u", "i", "l", "t", " ", "X">>,
     <<"-", " ", "L", "e", "d", " ", "Y">>,
     <<"-">>,
     <<"2", "0", "2", "1", "-", "0", "3", "-", "0", "1">>,
     <<"N", "o", "t", "e", "s">>,
     <<"D", "e", "v", " ", "-", " ", "I", "n", "i", "t", "e", "c", "h">>}

\* the lines of an education section
EduLines ==
    {<<"M", "I", "T", " ", "-", " ", "B", "S", "c">>,
     <<"G", "r", "a", "d", "u", "a", "t", "e", "d", ":", " ", "1", "9", "7", "3">>,
     <<"1", "9", "7", "3">>,
     <<"N", "o", "t", "e", "s">>,
     <<"G", "r", "a", "d", "u", "a", "t", "e", "d", ":", " ", "2", "0", "1", "9", "-", "0", "5", "-", "0", "1">>}

RECURSIVE SectionsOfLen(_, _)
SectionsOfLen(lines, k) ==
    IF k = 0 THEN {<<>>}
    ELSE {Append(s, l) : s \in SectionsOfLen(lines, k - 1), l \in lines}

Sections(lines) == UNION {SectionsOfLen(lines, k) : k \in 0..MaxSectionLines}

\* one iteration of the loop of _parse_roles
RolesIter ==
    /\ ppc = "roles"
    /\ lineIdx < Len(section)
    /\ LET r == RoleStep(section, [i |-> lineIdx, cur |-> cur, roles |-> roles,
                                   raised |-> FALSE])
       IN /\ lineIdx' = r.i
          /\ cur' = r.cur
          /\ roles' = r.roles
          /\ ppc' = IF r.raised THEN "raised" ELSE "roles"
    /\ UNCHANGED <<section, edu>>
    /\ UNCHANGED <<handlerVars, chunkVars, ingestVars, filterVars, profileVars>>
    /\ UNCHANGED <<listVars, seniorityVars>>

\* the loop condition fails: flush() and return roles
RolesReturn ==
    /\ ppc = "roles"
    /\ ~(lineIdx < Len(section))
    /\ roles' = FlushRole(roles, cur)
    /\ cur' = None
    /\ ppc' = "roles_done"
    /\ UNCHANGED <<section, lineIdx, edu>>
    /\ UNCHANGED <<handlerVars, chunkVars, ingestVars, filterVars, profileVars>>
    /\ UNCHANGED <<listVars, seniorityVars>>

\* one iteration of the loop of _parse_education
EduIter ==
    /\ ppc = "edu"
    /\ lineIdx < Len(section)
    /\ LET r == EduStep(section, [i |-> lineIdx, cur |-> cur, edu |-> edu,
                                  raised |-> FALSE])
       IN /\ lineIdx' = r.i
          /\ cur' = r.cur
          /\ edu' = r.edu
          /\ ppc' = IF r.raised THEN "raised" ELSE "edu"
    /\ UNCHANGED <<section, roles>>
    /\ UNCHANGED <<handlerVars, chunkVars, ingestVars, filterVars, profileVars>>
    /\ UNCHANGED <<listVars, seniorityVars>>

\* the loop condition fails: flush() and return edu
EduReturn ==
    /\ ppc = "edu"
    /\ ~(lineIdx < Len(section))
    /\ edu' = FlushEdu(edu, cur)
    /\ cur' = None
    /\ ppc' = "edu_done"
    /\ UNCHANGED <<section, lineIdx, roles>>
    /\ UNCHANGED <<handlerVars, chunkVars, ingestVars, filterVars, profileVars>>
    /\ UNCHANGED <<listVars, seniorityVars>>

\* ------------------------------------------------------------------------
\* Properties of the role and education parsers
\* ------------------------------------------------------------------------
\* the line the loop of the parser is about to process
CurrentLine == section[lineIdx + 1]

AtRoleLine == ppc = "roles" /\ lineIdx < Len(section)

\* an Optional[str] that is neither None nor ""
Filled(o) == Len(o) = 1 /\ Len(o[1]) > 0

\* the text before / after the first occurrence of the character c
BeforeFirst(s, c) == SubSeq(s, 1, Least({k \in 1..Len(s) : s[k] = c}) - 1)

AfterFirst(s, c) == SubSeq(s, Least({k \in 1..Len(s) : s[k] = c}) + 1, Len(s))

DateOffsets(s) == {p \in 0..Len(s) : IsoDateAt(s, p)}

FirstDate(s) == SubSeq(s, Least(DateOffsets(s)) + 1, Least(DateOffsets(s)) + 10)

LastDate(s) == SubSeq(s, Greatest(DateOffsets(s)) + 1, Greatest(DateOffsets(s)) + 10)

\* a line with a date that does not begin with a bullet glyph
IsDateOnly(line) == IsoDateSearch(line) /\ ~StartsWithBullet(line)

\* C13: no emitted Role is empty: every Role in the result has a title, a
\* company, a start, an end or a bullet.
C13_NoEmptyRoleEmitted ==
    \A k \in 1..Len(roles) :
        \/ Len(roles[k].title) > 0
        \/ Filled(roles[k].company)
        \/ Filled(roles[k].start)
        \/ Filled(roles[k].end)
        \/ Len(roles[k].bullets) > 0

\* the header "-" opened a role without any attribute, and the role emitted
\* first is a later one
C13_Witness ==
    /\ ppc = "roles_done"
    /\ Len(section) >= 2 /\ section[1] = <<"-">> /\ IsRoleHeader(section[2])
    /\ Len(roles) >= 1 /\ Len(roles[1].title) > 0

\* C14 (as claimed): every emitted Role has a non-empty title.
C14_TitleRequired ==
    \A k \in 1..Len(roles) : roles[k].title # <<>>

\* C14 (amended): a title is not required for retention. When the section
\* begins with a bullet line or a date-only line, the role opened for it
\* with an empty title is the first emitted Role, and every emitted Role
\* with an empty title has a company, a date or a bullet.
C14_TitlelessRoleRetained ==
    /\ \A k \in 1..Len(roles) :
          (roles[k].title = <<>>) =>
              \/ Filled(roles[k].company)
              \/ Filled(roles[k].start)
              \/ Len(roles[k].bullets) > 0
    /\ (/\ ppc = "roles_done" /\ section # <<>>
        /\ ~IsRoleHeader(section[1])
        /\ StartsWithBullet(section[1]) \/ IsoDateSearch(section[1]))
          => (roles # <<>> /\ roles[1].title = <<>>)

C14_Witness ==
    /\ ppc = "roles_done"
    /\ section # <<>> /\ section[1] = <<"BULLET", " ", "B", "u", "i", "l", "t", " ", "X">>
    /\ roles # <<>> /\ roles[1].title = <<>>
    /\ roles[1].bullets = <<<<"B", "u", "i", "l", "t", " ", "X">>>>

\* C15: every emitted EducationItem has a non-empty institution; when no
\* line of the section gives an institution (only `graduated:` lines, bare
\* year lines and other text) nothing is emitted.
C15_InstitutionRequired ==
    /\ \A k \in 1..Len(edu) : Len(edu[k].institution) > 0
    /\ (/\ ppc = "edu_done"
        /\ \A k \in 1..Len(section) : ~IsRoleHeader(section[k]))
          => edu = <<>>

\* the item opened by the `graduated:` line was dropped when the header came
C15_Witness ==
    /\ ppc = "edu_done"
    /\ Len(section) = 2
    /\ IsGraduatedLine(section[1]) /\ ~IsRoleHeader(section[1])
    /\ IsRoleHeader(section[2])
    /\ Len(edu) = 1 /\ edu[1].end = None

\* C18 (as claimed): a line that begins with a bullet glyph is appended,
\* glyph stripped, to the bullets of the role in progress (opened with an
\* empty title when there is none); it starts no new role and flushes none.
C18_BulletLineIsBullet ==
    [][(AtRoleLine /\ StartsWithBullet(CurrentLine)) =>
          /\ roles' = roles
          /\ cur' # None
          /\ cur'[1].bullets =
                (IF cur = None THEN <<>> ELSE cur[1].bullets)
                    \o <<BulletText(CurrentLine)>>
          /\ cur'[1].title = (IF cur = None THEN <<>> ELSE cur[1].title)
          /\ lineIdx' = lineIdx + 1]_vars

\* C19: a role header line followed by a line with a date gives one role:
\* title = text before the first dash, company and location = the remainder
\* split once on its first comma, start and end = first and last date of the
\* following line, which is consumed with the header (the parser advances
\* two lines). The example section gives exactly one Role.
C19_HeaderConsumesDateLine ==
    /\ [][(/\ AtRoleLine /\ lineIdx + 1 < Len(section)
           /\ IsRoleHeader(CurrentLine)
           /\ IsoDateSearch(section[lineIdx + 2])) =>
             LET rest == Strip(AfterFirst(CurrentLine, "-"))
                 r == cur'[1]
             IN /\ lineIdx' = lineIdx + 2
                /\ cur' # None
                /\ r.title = Strip(BeforeFirst(CurrentLine, "-"))
                /\ IF "," \in Range(rest)
                      THEN /\ r.company = <<Strip(BeforeFirst(rest, ","))>>
                           /\ r.location = <<Strip(AfterFirst(rest, ","))>>
                      ELSE /\ r.company = (IF rest = <<>> THEN None ELSE <<rest>>)
                           /\ r.location = None
                /\ r.start = <<FirstDate(section[lineIdx + 2])>>
                /\ r.end = <<LastDate(section[lineIdx + 2])>>
                /\ r.bullets = <<>>]_vars
    /\ [](ppc = "roles_done"
          /\ section = <<<<"E", "n", "g", "i", "n", "e", "e", "r", " ", "-", " ", "A", "c", "m", "e", ",", " ", "B", "e", "r", "l", "i", "n">>, <<"2", "0", "1", "8", "-", "0", "1", "-", "0", "1", " ", "-", " ", "2", "0", "2", "0", "-", "0", "6", "-", "1", "5">>,
                         <<"BULLET", " ", "B", "u", "i", "l", "t", " ", "X">>>>
          => roles = <<[title |-> <<"E", "n", "g", "i", "n", "e", "e", "r">>,
                        company |-> <<<<"A", "c", "m", "e">>>>,
                        location |-> <<<<"B", "e", "r", "l", "i", "n">>>>,
                        start |-> <<<<"2", "0", "1", "8", "-", "0", "1", "-", "0", "1">>>>,
                        end |-> <<<<"2", "0", "2", "0", "-", "0", "6", "-", "1", "5">>>>,
                        bullets |-> <<<<"B", "u", "i", "l", "t", " ", "X">>>>]>>)

C19_Witness ==
    /\ ppc = "roles_done"
    /\ section = <<<<"E", "n", "g", "i", "n", "e", "e", "r", " ", "-", " ", "A", "c", "m", "e", ",", " ", "B", "e", "r", "l", "i", "n">>, <<"2", "0", "1", "8", "-", "0", "1", "-", "0", "1", " ", "-", " ", "2", "0", "2", "0", "-", "0", "6", "-", "1", "5">>,
                   <<"BULLET", " ", "B", "u", "i", "l", "t", " ", "X">>>>
    /\ Len(roles) = 1

\* C20: a date-only line never overwrites a date the role in progress
\* already has, and it changes neither the role's title, company, location
\* and bullets nor the roles already emitted.
C20_DateOnlyFirstSeenWins ==
    [][(AtRoleLine /\ IsDateOnly(CurrentLine) /\ cur # None) =>
          /\ cur' # None
          /\ Filled(cur[1].start) => cur'[1].start = cur[1].start
          /\ Filled(cur[1].end) => cur'[1].end = cur[1].end
          /\ cur'[1].title = cur[1].title
          /\ cur'[1].company = cur[1].company
          /\ cur'[1].location = cur[1].location
          /\ cur'[1].bullets = cur[1].bullets
          /\ roles' = roles]_vars

\* the date-only line just processed left the earlier start date in place
C20_Witness ==
    /\ ppc = "roles" /\ lineIdx >= 2
    /\ IsDateOnly(section[lineIdx])
    /\ cur # None /\ Filled(cur[1].start)
    /\ cur[1].start # <<FirstDate(section[lineIdx])>>

\* ------------------------------------------------------------------------
\* Python re: a backtracking matcher for the patterns of pdfHandler.py
\* ------------------------------------------------------------------------
\* A pattern is a tree: one character of a class (cls) or outside it (ncls),
\* a literal (lit, liti under re.I), \b (b), a sequence (seq, built by Cat), an
\* alternation (alt), a greedy repetition {lo,hi} (rep; inf for no upper
\* limit).
Cls(set) == [t |-> "cls", set |-> set]

NCls(set) == [t |-> "ncls", set |-> set]

Lit(str) == [t |-> "lit", str |-> str]

LitI(str) == [t |-> "liti", str |-> str]

WordB == [t |-> "b"]

Cat(parts) == [t |-> "seq", parts |-> parts]

Rep(r, lo, hi) == [t |-> "rep", re |-> r, lo |-> lo, hi |-> hi, inf |-> FALSE]

AtLeast(r, lo) == [t |-> "rep", re |-> r, lo |-> lo, hi |-> lo, inf |-> TRUE]

Opt(r) == Rep(r, 0, 1)

\* the value x under the name of the parameter of F: a local variable
Bind(x, F(_)) == F(x)

RECURSIVE ReEnds(_, _, _)
RECURSIVE ReEach(_, _, _)
RECURSIVE ReSeqEnds(_, _, _, _)
RECURSIVE ReRepEnds(_, _, _, _)
RECURSIVE ReRepEach(_, _, _, _, _)

\* the offsets where a match of r that begins at offset p may end, in the
\* order in which the backtracking matcher tries them
ReEnds(r, s, p) ==
    CASE r.t = "cls" -> IF p < Len(s) /\ s[p + 1] \in r.set THEN <<p + 1>> ELSE <<>>
      [] r.t = "ncls" -> IF p < Len(s) /\ s[p + 1] \notin r.set THEN <<p + 1>> ELSE <<>>
      [] r.t = "lit" -> IF LitAt(s, p, r.str) THEN <<p + Len(r.str)>> ELSE <<>>
      [] r.t = "liti" -> IF LitAtI(s, p, r.str) THEN <<p + Len(r.str)>> ELSE <<>>
      [] r.t = "b" -> IF Boundary(s, p) THEN <<p>> ELSE <<>>
      [] r.t = "seq" -> ReSeqEnds(r.parts, 1, s, <<p>>)
      [] r.t = "rep" -> ReRepEnds(r, s, p, 0)

\* the ends of r from each of the offsets ps, in order
ReEach(r, s, ps) ==
    IF ps = <<>> THEN <<>>
    ELSE ReEnds(r, s, Head(ps)) \o ReEach(r, s, Tail(ps))

\* the ends of parts[k..] from each of the offsets ps
ReSeqEnds(parts, k, s, ps) ==
    IF k > Len(parts) \/ ps = <<>> THEN ps
    ELSE ReSeqEnds(parts, k + 1, s, ReEach(parts[k], s, ps))

\* greedy repetition after n iterations: one more iteration first, then stop
ReRepEnds(r, s, p, n) ==
    LET more == IF r.inf \/ n < r.hi
                   THEN ReRepEach(r, s, p, n, ReEnds(r.re, s, p))
                   ELSE <<>>
    IN IF n >= r.lo THEN Append(more, p) ELSE more

ReRepEach(r, s, p, n, qs) ==
    IF qs = <<>> THEN <<>>
    ELSE (IF Head(qs) > p THEN ReRepEnds(r, s, Head(qs), n + 1) ELSE <<>>)
            \o ReRepEach(r, s, p, n, Tail(qs))

\* pattern.search(s) from offset p on: <<start, end>> of the leftmost match,
\* <<>> without one
ReSearchFrom(r, s, p) ==
    Bind({q \in p..Len(s) : ReEnds(r, s, q) # <<>>}, LAMBDA hits :
       IF hits = {} THEN <<>>
       ELSE Bind(Least(hits), LAMBDA q : <<q, ReEnds(r, s, q)[1]>>))

ReSearch(r, s) == ReSearchFrom(r, s, 0)

\* pattern.findall(s) for a pattern without groups: the matched texts
RECURSIVE ReFindallFrom(_, _, _)
ReFindallFrom(r, s, p) ==
    LET m == ReSearchFrom(r, s, p)
    IN IF m = <<>> THEN <<>>
       ELSE <<SubSeq(s, m[1] + 1, m[2])>>
               \o ReFindallFrom(r, s, IF m[2] > m[1] THEN m[2] ELSE m[1] + 1)

ReFindall(r, s) == ReFindallFrom(r, s, 0)

DigitChars == Range(Digits)

AtSign == "@"

\* EMAIL_RE = [A-Z0-9._%+-]+@[A-Z0-9.-]+\.[A-Z]{2,}  (re.I)
EMAIL_RE ==
    Cat(<<AtLeast(Cls(Letters \cup DigitChars \cup {".", "_", "%", "+", "-"}), 1),
          Lit(<<AtSign>>),
          AtLeast(Cls(Letters \cup DigitChars \cup {".", "-"}), 1),
          Lit(<<".">>),
          AtLeast(Cls(Letters), 2)>>)

\* [-.\s]?
PhoneSep == Opt(Cls({"-", "."} \cup Whitespace))

\* PHONE_RE = (?:(?:\+?\d{1,3}[-.\s]?)?(?:\(?\d{2,4}\)?[-.\s]?)?
\*             \d{3,4}[-.\s]?\d{4,})(?:x\d+)?
PHONE_RE ==
    Cat(<<Cat(<<Opt(Cat(<<Opt(Lit(<<"+">>)), Rep(Cls(DigitChars), 1, 3), PhoneSep>>)),
                Opt(Cat(<<Opt(Lit(<<"(">>)), Rep(Cls(DigitChars), 2, 4),
                          Opt(Lit(<<")">>)), PhoneSep>>)),
                Rep(Cls(DigitChars), 3, 4),
                PhoneSep,
                AtLeast(Cls(DigitChars), 4)>>),
          Opt(Cat(<<Lit(<<"x">>), AtLeast(Cls(DigitChars), 1)>>))>>)

\* URL_RE = \bhttps?://\S+\b  (re.I)
URL_RE ==
    Cat(<<WordB, LitI(<<"h", "t", "t", "p">>), Opt(LitI(<<"s">>)), Lit(<<":", "/", "/">>),
          AtLeast(NCls(Whitespace), 1), WordB>>)

\* LINKEDIN_RE = (https?://(www\.)?linkedin\.com/[^\s]+)  (re.I)
LINKEDIN_RE ==
    Cat(<<LitI(<<"h", "t", "t", "p">>), Opt(LitI(<<"s">>)), Lit(<<":", "/", "/">>),
          Opt(LitI(<<"w", "w", "w", ".">>)), LitI(<<"l", "i", "n", "k", "e", "d", "i", "n", ".", "c", "o", "m", "/">>),
          AtLeast(NCls(Whitespace), 1)>>)

\* ------------------------------------------------------------------------
\* PdfHandler: primitive extractors and the header block guesses
\* ------------------------------------------------------------------------
\* text.splitlines(), the line break of the model being "\n"
SplitLines(s) == IF s = <<>> THEN <<>> ELSE PySplit(s, "\n", Len(s))

\* sep.join(parts)
RECURSIVE Join(_, _)
Join(parts, sep) ==
    IF parts = <<>> THEN <<>>
    ELSE IF Len(parts) = 1 THEN parts[1]
    ELSE parts[1] \o sep \o Join(Tail(parts), sep)

\* [l.strip() for l in full_text.splitlines() if l.strip()]
NonBlankLines(s) ==
    StripAll(SelectSeq(SplitLines(s), LAMBDA l : Strip(l) # <<>>))

\* line.split(): the words between runs of whitespace
RECURSIVE Words(_)
Words(line) ==
    LET l == LStripChars(line, Whitespace)
        n == RunLen(l, 0, {c \in Range(l) : c \notin Whitespace})
    IN IF l = <<>> THEN <<>>
       ELSE <<SubSeq(l, 1, n)>> \o Words(SubSeq(l, n + 1, Len(l)))

\* _extract_email
ExtractEmail(s) ==
    Bind(ReSearch(EMAIL_RE, s), LAMBDA m :
       IF m = <<>> THEN None ELSE Some(SubSeq(s, m[1] + 1, m[2])))

\* len(re.sub(r"\D", "", s))
DigitCount(s) == Cardinality({k \in 1..Len(s) : IsDigit(s[k])})

\* _extract_phone: the first candidate with 7 to 18 digits
ExtractPhone(s) ==
    Bind(ReFindall(PHONE_RE, s), LAMBDA candidates :
    Bind({k \in 1..Len(candidates) :
             \E n \in {DigitCount(Strip(candidates[k]))} : 7 <= n /\ n <= 18},
         LAMBDA ok :
       IF ok = {} THEN None ELSE Some(Strip(candidates[Least(ok)]))))

\* _extract_links: <<linkedin, portfolio>>
ExtractLinks(s) ==
    Bind(ReSearch(LINKEDIN_RE, s), LAMBDA m :
    Bind(IF m = <<>> THEN None ELSE Some(SubSeq(s, m[1] + 1, m[2])), LAMBDA linkedin :
    Bind(ReFindall(URL_RE, s), LAMBDA urls :
    Bind({k \in 1..Len(urls) :
             ~(linkedin # None /\ Contains(Lower(linkedin[1]), Lower(urls[k])))},
         LAMBDA other :
       <<linkedin, IF other = {} THEN None ELSE Some(urls[Least(other)])>>))))

\* EMAIL_RE.search(line) or URL_RE.search(line) or PHONE_RE.search(line)
IsContactLine(line) ==
    \/ ReSearch(EMAIL_RE, line) # <<>>
    \/ ReSearch(URL_RE, line) # <<>>
    \/ ReSearch(PHONE_RE, line) # <<>>

SectionWords ==
    <<<<"s", "u", "m", "m", "a", "r", "y">>, <<"e", "x", "p", "e", "r", "i", "e", "n", "c", "e">>, <<"e", "d", "u", "c", "a", "t", "i", "o", "n">>, <<"s", "k", "i", "l", "l", "s">>, <<"c", "e", "r", "t", "i", "f", "i", "c", "a", "t", "i", "o", "n">>,
      <<"l", "a", "n", "g", "u", "a", "g", "e", "s">>>>

\* the test of _guess_name on one line of the header block
IsNameLine(line) ==
    /\ ~IsContactLine(line)
    /\ \A k \in 1..Len(SectionWords) : ~Contains(Lower(line), SectionWords[k])
    /\ Strip(SelectSeq(line, LAMBDA c : c # "-")) # <<>>
    /\ \E ws \in {Words(line)} :
          /\ Len(ws) >= 2
          /\ Cardinality({k \in 1..Len(ws) : ws[k][1] \in Range(UpperLetters)}) >= 2

\* _guess_name
GuessName(header_blk) ==
    Bind(SplitLines(header_blk), LAMBDA lines :
    Bind({k \in 1..Len(lines) : IsNameLine(lines[k])}, LAMBDA ok :
       IF ok = {} THEN None ELSE Some(Strip(lines[Least(ok)]))))

\* lines[1:4]
TitleCandidates(lines) == SubSeq(lines, 2, Min(4, Len(lines)))

\* _guess_current_title
GuessCurrentTitle(header_blk) ==
    Bind(TitleCandidates(SelectSeq(SplitLines(header_blk), LAMBDA l : Strip(l) # <<>>)),
         LAMBDA cand :
    Bind({k \in 1..Len(cand) :
             /\ ~IsContactLine(cand[k])
             /\ \E n \in {Len(Words(cand[k]))} : 2 <= n /\ n <= 6},
         LAMBDA ok :
       IF ok = {} THEN None ELSE Some(Strip(cand[Least(ok)]))))

\* CITY_COUNTRY_RE = \b([A-Za-z .'-]+),\s*([A-Za-z .'-]+)\b
CityTail == Cat(<<AtLeast(Cls(PlaceChars), 1), WordB>>)

CITY_COUNTRY_RE ==
    Cat(<<WordB, AtLeast(Cls(PlaceChars), 1), Lit(<<",">>),
          AtLeast(Cls(Whitespace), 0), CityTail>>)

\* _guess_city_country: <<city, country>>. Group 1 ends at the comma (the
\* class holds no comma); group 2 begins after the longest run of \s that
\* leaves it a match.
GuessCityCountry(header_blk) ==
    Bind(ReSearch(CITY_COUNTRY_RE, header_blk), LAMBDA m :
       IF m = <<>> THEN <<None, None>>
       ELSE
    Bind(m[1] + RunLen(header_blk, m[1], PlaceChars), LAMBDA comma :
    Bind(ReEnds(AtLeast(Cls(Whitespace), 0), header_blk, comma + 1), LAMBDA gaps :
    Bind(gaps[Least({k \in 1..Len(gaps) :
                        ReEnds(CityTail, header_blk, gaps[k]) # <<>>})], LAMBDA g2 :
    Bind(Strip(SubSeq(header_blk, m[1] + 1, comma)), LAMBDA city :
    Bind(Strip(SubSeq(header_blk, g2 + 1, m[2])), LAMBDA country :
       IF Len(city) < 2 \/ Len(country) < 2 THEN <<None, None>>
       ELSE <<Some(city), Some(country)>>))))))

\* ------------------------------------------------------------------------
\* PdfHandler._extract_section and the list-style section parsers
\* ------------------------------------------------------------------------
SectionHeaders ==
    <<<<"p", "r", "o", "f", "e", "s", "s", "i", "o", "n", "a", "l", " ", "s", "u", "m", "m", "a", "r", "y">>, <<"s", "u", "m", "m", "a", "r", "y">>, <<"w", "o", "r", "k", " ", "e", "x", "p", "e", "r", "i", "e", "n", "c", "e">>, <<"e", "x", "p", "e", "r", "i", "e", "n", "c", "e">>,
      <<"e", "d", "u", "c", "a", "t", "i", "o", "n">>, <<"s", "k", "i", "l", "l", "s">>, <<"c", "e", "r", "t", "i", "f", "i", "c", "a", "t", "i", "o", "n", "s">>, <<"c", "e", "r", "t", "i", "f", "i", "c", "a", "t", "i", "o", "n">>,
      <<"l", "a", "n", "g", "u", "a", "g", "e", "s">>, <<"l", "a", "n", "g", "u", "a", "g", "e">>>>

\* any(line.lower().startswith(h) for h in hs)
StartsWithAny(line, hs) ==
    \E k \in 1..Len(hs) : LitAt(Lower(line), 0, hs[k])

MutExtractSection(lines, headers) ==
    LET starts == {k \in 1..Len(lines) : StartsWithAny(lines[k], headers)}
        header_idx == Least(starts)
        stops == {k \in (header_idx + 1)..Len(lines) : StartsWithAny(lines[k], SectionHeaders)}
    IN IF starts = {} THEN <<>>
       ELSE SubSeq(lines, header_idx + 1,
                   IF stops = {} THEN Len(lines) ELSE Least(stops) - 1)

\* _extract_section
ExtractSection(lines, headers) ==
    LET starts == {k \in 1..Len(lines) : StartsWithAny(lines[k], headers)}
        others == SelectSeq(SectionHeaders, LAMBDA h : h \notin Range(headers))
        header_idx == Least(starts)
        stops == {k \in (header_idx + 1)..Len(lines) : StartsWithAny(lines[k], others)}
    IN IF starts = {} THEN <<>>
       ELSE SubSeq(lines, header_idx + 1,
                   IF stops = {} THEN Len(lines) ELSE Least(stops) - 1)

\* the items of xs whose lower-cased form did not occur before
RECURSIVE UniqFrom(_, _)
UniqFrom(xs, seen) ==
    IF xs = <<>> THEN <<>>
    ELSE IF Lower(Head(xs)) \in seen THEN UniqFrom(Tail(xs), seen)
    ELSE <<Head(xs)>> \o UniqFrom(Tail(xs), seen \cup {Lower(Head(xs))})

Uniq(xs) == UniqFrom(xs, {})

\* [x.strip() for x in parts if x.strip()]
StrippedNonEmpty(parts) == SelectSeq(StripAll(parts), LAMBDA x : x # <<>>)

\* _parse_certs, from the k-th line on
RECURSIVE ParseCertsFrom(_, _)
ParseCertsFrom(sec, k) ==
    IF k > Len(sec) THEN <<>>
    ELSE (IF StartsWithBullet(sec[k]) THEN <<BulletText(sec[k])>>
          ELSE IF sec[k] # <<>> /\ Len(Words(sec[k])) >= 2 THEN <<Strip(sec[k])>>
          ELSE <<>>)
            \o ParseCertsFrom(sec, k + 1)

ParseCerts(sec) == ParseCertsFrom(sec, 1)

\* the items one line gives to _parse_list_items
ListItemsOf(line) ==
    LET l == StripChars(Strip(line), {","})
    IN IF l = <<>> THEN <<>>
       ELSE IF StartsWithBullet(l) THEN <<BulletText(l)>>
       ELSE IF "," \in Range(l) THEN StrippedNonEmpty(PySplit(l, ",", Len(l)))
       ELSE <<l>>

RECURSIVE ListItemsFrom(_, _)
ListItemsFrom(sec, k) ==
    IF k > Len(sec) THEN <<>>
    ELSE ListItemsOf(sec[k]) \o ListItemsFrom(sec, k + 1)

\* _parse_list_items
ParseListItems(sec) == Uniq(ListItemsFrom(sec, 1))

\* ------------------------------------------------------------------------
\* PdfHandler._parse_skills_and_more
\* ------------------------------------------------------------------------
CLOUD_KEYWORDS ==
    {<<"a", "w", "s">>, <<"a", "m", "a", "z", "o", "n", " ", "w", "e", "b", " ", "s", "e", "r", "v", "i", "c", "e", "s">>, <<"a", "z", "u", "r", "e">>, <<"g", "c", "p">>, <<"g", "o", "o", "g", "l", "e", " ", "c", "l", "o", "u", "d">>,
     <<"g", "o", "o", "g", "l", "e", " ", "c", "l", "o", "u", "d", " ", "p", "l", "a", "t", "f", "o", "r", "m">>}

TOOL_HINTS ==
    {<<"f", "i", "g", "m", "a">>, <<"p", "h", "o", "t", "o", "s", "h", "o", "p">>, <<"i", "l", "l", "u", "s", "t", "r", "a", "t", "o", "r">>, <<"a", "u", "t", "o", "c", "a", "d">>, <<"s", "o", "l", "i", "d", "w", "o", "r", "k", "s">>,
     <<"b", "l", "e", "n", "d", "e", "r">>, <<"s", "k", "e", "t", "c", "h">>, <<"j", "i", "r", "a">>, <<"c", "o", "n", "f", "l", "u", "e", "n", "c", "e">>}

\* sorted(xs) for a set of strings
RECURSIVE Sorted(_)
Sorted(xs) ==
    IF xs = {} THEN <<>>
    ELSE LET x == CHOOSE a \in xs : \A b \in xs : a = b \/ StrLess(a, b)
         IN <<x>> \o Sorted(xs \ {x})

\* re.split(r",|\|", s)
RECURSIVE SplitSkills(_)
SplitSkills(s) ==
    LET hits == {k \in 1..Len(s) : s[k] \in {",", "|"}}
    IN IF hits = {} THEN <<s>>
       ELSE <<SubSeq(s, 1, Least(hits) - 1)>>
               \o SplitSkills(SubSeq(s, Least(hits) + 1, Len(s)))

RECURSIVE SecondarySkills(_, _)
SecondarySkills(ls, k) ==
    IF k > Len(ls) THEN <<>>
    ELSE StrippedNonEmpty(SplitSkills(ls[k])) \o SecondarySkills(ls, k + 1)

\* re.search(rf"\b{phrase}", full_text, re.I)
PhraseSearch(s, phrase) ==
    \E p \in 0..Len(s) : Boundary(s, p) /\ LitAtI(s, p, phrase)

\* the three phrase triggers: <<phrase, domain, industry>>
DomainTriggers ==
    <<<<<<"e", "x", "h", "i", "b", "i", "t", "i", "o", "n", " ", "d", "e", "s", "i", "g", "n">>, <<"e", "x", "h", "i", "b", "i", "t", "i", "o", "n", " ", "d", "e", "s", "i", "g", "n">>, <<"d", "e", "s", "i", "g", "n">>>>,
      <<<<"p", "r", "i", "n", "t", " ", "p", "r", "o", "d", "u", "c", "t", "i", "o", "n">>, <<"p", "r", "i", "n", "t", " ", "p", "r", "o", "d", "u", "c", "t", "i", "o", "n">>, <<"p", "r", "i", "n", "t", "i", "n", "g">>>>,
      <<<<"l", "i", "b", "r", "a", "r", "i", "a", "n">>, <<"l", "i", "b", "r", "a", "r", "y", " ", "s", "c", "i", "e", "n", "c", "e", "s">>, <<"e", "d", "u", "c", "a", "t", "i", "o", "n">>>>>>

\* the domains (col = 2) or industries (col = 3) of the triggers found
DomainsOf(s, col) ==
    LET hit == SelectSeq(DomainTriggers, LAMBDA tr : PhraseSearch(s, tr[1]))
    IN [k \in 1..Len(hit) |-> hit[k][col]]

\* _parse_skills_and_more
ParseSkillsAndMore(skills_section, s) ==
    LET skills_lines == SelectSeq(skills_section, LAMBDA l : l # <<>>)
    IN [prim |-> IF skills_lines = <<>> THEN <<>>
                 ELSE Uniq(StrippedNonEmpty(SplitSkills(skills_lines[1]))),
        sec |-> Uniq(SecondarySkills(skills_lines, 2)),
        tools |-> Uniq(Sorted({t \in TOOL_HINTS : WordSearch(s, t)})),
        clouds |-> Uniq(Sorted({c \in CLOUD_KEYWORDS : WordSearch(s, c)})),
        domains |-> Uniq(DomainsOf(s, 2)),
        industries |-> Uniq(DomainsOf(s, 3))]

\* ------------------------------------------------------------------------
\* PdfHandler._infer_seniority
\* ------------------------------------------------------------------------
\* the entries of the dict in definition order: <<keyword, level>>
SENIORITY_KEYWORDS ==
    <<<<<<"i", "n", "t", "e", "r", "n">>, <<"i", "n", "t", "e", "r", "n">>>>, <<<<"j", "u", "n", "i", "o", "r">>, <<"j", "u", "n", "i", "o", "r">>>>, <<<<"j", "r">>, <<"j", "u", "n", "i", "o", "r">>>>,
      <<<<"a", "s", "s", "o", "c", "i", "a", "t", "e">>, <<"a", "s", "s", "o", "c", "i", "a", "t", "e">>>>, <<<<"m", "i", "d">>, <<"m", "i", "d">>>>,
      <<<<"s", "e", "n", "i", "o", "r">>, <<"s", "e", "n", "i", "o", "r">>>>, <<<<"s", "r">>, <<"s", "e", "n", "i", "o", "r">>>>, <<<<"l", "e", "a", "d">>, <<"l", "e", "a", "d">>>>,
      <<<<"p", "r", "i", "n", "c", "i", "p", "a", "l">>, <<"p", "r", "i", "n", "c", "i", "p", "a", "l">>>>, <<<<"s", "t", "a", "f", "f">>, <<"s", "t", "a", "f", "f">>>>,
      <<<<"m", "a", "n", "a", "g", "e", "r">>, <<"m", "a", "n", "a", "g", "e", "r">>>>, <<<<"h", "e", "a", "d">>, <<"h", "e", "a", "d">>>>,
      <<<<"d", "i", "r", "e", "c", "t", "o", "r">>, <<"d", "i", "r", "e", "c", "t", "o", "r">>>>, <<<<"v", "p">>, <<"v", "p">>>>,
      <<<<"c", "h", "i", "e", "f">>, <<"c", "-", "l", "e", "v", "e", "l">>>>, <<<<"c", "t", "o">>, <<"c", "-", "l", "e", "v", "e", "l">>>>, <<<<"c", "p", "o">>, <<"c", "-", "l", "e", "v", "e", "l">>>>,
      <<<<"c", "o", "o">>, <<"c", "-", "l", "e", "v", "e", "l">>>>, <<<<"c", "e", "o">>, <<"c", "-", "l", "e", "v", "e", "l">>>>>>

\* the offset of the first whole-word occurrence of w in s
FirstWordOffset(s, w) ==
    Least({p \in 0..Len(s) : Boundary(s, p) /\ LitAtI(s, p, w) /\ Boundary(s, p + Len(w))})

MutInferSeniority(title) ==
    IF ~Truthy(title) THEN None
    ELSE LET hits == {k \in 1..Len(SENIORITY_KEYWORDS) :
                         WordSearch(Lower(title[1]), SENIORITY_KEYWORDS[k][1])}
             leftmost == CHOOSE k \in hits : \A j \in hits :
                            FirstWordOffset(Lower(title[1]), SENIORITY_KEYWORDS[k][1])
                               <= FirstWordOffset(Lower(title[1]), SENIORITY_KEYWORDS[j][1])
         IN IF hits = {} THEN None
            ELSE Some(SENIORITY_KEYWORDS[leftmost][2])

\* _infer_seniority of an Optional[str]
InferSeniority(title) ==
    IF ~Truthy(title) THEN None
    ELSE LET hits == {k \in 1..Len(SENIORITY_KEYWORDS) :
                         WordSearch(Lower(title[1]), SENIORITY_KEYWORDS[k][1])}
         IN IF hits = {} THEN None
            ELSE Some(SENIORITY_KEYWORDS[Least(hits)][2])

\* ------------------------------------------------------------------------
\* Dates: parse_iso_date, diff_years, PdfHandler._compute_yoe
\* ------------------------------------------------------------------------
IsLeap(y) == (y % 4 = 0 /\ y % 100 # 0) \/ y % 400 = 0

DaysInMonth(y, m) ==
    IF m = 2 THEN (IF IsLeap(y) THEN 29 ELSE 28)
    ELSE IF m \in {4, 6, 9, 11} THEN 30 ELSE 31

RECURSIVE DaysBeforeMonth(_, _)
DaysBeforeMonth(y, m) ==
    IF m = 1 THEN 0 ELSE DaysBeforeMonth(y, m - 1) + DaysInMonth(y, m - 1)

\* datetime(y, m, d).toordinal()
ToOrdinal(y, m, d) ==
    365 * (y - 1) + ((y - 1) \div 4) - ((y - 1) \div 100) + ((y - 1) \div 400)
        + DaysBeforeMonth(y, m) + d

\* parse_iso_date(s): the day number of the first ISO date of s; None without
\* a match or when datetime(y, mo, d) raises ValueError
ParseIsoDate(s) ==
    Bind({p \in 0..Len(s) : IsoDateAt(s, p)}, LAMBDA hits :
       IF hits = {} THEN None
       ELSE
    Bind(Least(hits), LAMBDA p0 :
    Bind(ParseInt(SubSeq(s, p0 + 1, p0 + 4)), LAMBDA y :
    Bind(ParseInt(SubSeq(s, p0 + 6, p0 + 7)), LAMBDA mo :
    Bind(ParseInt(SubSeq(s, p0 + 9, p0 + 10)), LAMBDA d :
       IF y >= 1 /\ mo >= 1 /\ mo <= 12 /\ d >= 1 /\ d <= DaysInMonth(y, mo)
          THEN Some(ToOrdinal(y, mo, d))
       ELSE None)))))

\* the parseable dates of one field (col "start" or "end") of the roles
RoleDates(rs, col) ==
    UNION {IF Truthy(rs[k][col]) THEN Range(ParseIsoDate(rs[k][col][1])) ELSE {} :
              k \in 1..Len(rs)}

MutEarliest(days) == Greatest(days)

\* min(starts)
Earliest(days) == Least(days)

\* _compute_yoe: None, or the number of days d of the window, the years
\* being d / 365.25; now is the day of datetime.utcnow()
ComputeYoe(rs, now) ==
    Bind(RoleDates(rs, "start"), LAMBDA starts :
    Bind(RoleDates(rs, "end"), LAMBDA ends :
       IF starts = {} THEN None
       ELSE
    Bind((IF ends # {} THEN Greatest(ends) ELSE now) - Earliest(starts), LAMBDA days :
       IF days < 0 THEN None
       ELSE Some(days))))

\* int(round(days / 365.25)): 8 * days is never an odd multiple of 1461, so
\* no value is half way between two integers
RoundYears(days) == (8 * days + 1461) \div 2922

\* "yoe": int(round(yoe)) if yoe is not None else 0
StoredYoe(yoe) == IF yoe # None THEN RoundYears(yoe[1]) ELSE 0

\* ------------------------------------------------------------------------
\* PdfHandler._normalized_keywords and the skillset hash
\* ------------------------------------------------------------------------
\* re.sub(r"\s+", " ", s)
RECURSIVE CollapseSpaces(_)
CollapseSpaces(s) ==
    IF s = <<>> THEN <<>>
    ELSE IF s[1] \in Whitespace
       THEN <<" ">> \o CollapseSpaces(SubSeq(s, RunLen(s, 0, Whitespace) + 1, Len(s)))
    ELSE <<s[1]>> \o CollapseSpaces(Tail(s))

MutNormalizeTerm(x) == CollapseSpaces(Strip(x))

\* re.sub(r"\s+", " ", x.strip().lower())
NormalizeTerm(x) == CollapseSpaces(Lower(Strip(x)))

\* _normalized_keywords: the bag (a set) of the non-empty normalized terms
\* (list(bag) has no specified order: the profile keeps the terms as a
\* sorted list, standing for the set; no property below reads their order)
NormalizedKeywords(arrs) ==
    UNION {{NormalizeTerm(arrs[a][k]) : k \in 1..Len(arrs[a])} : a \in 1..Len(arrs)}
        \ {<<>>}

\* sha256_str(s): one digest per string
Sha256Str(s) == <<"s", "h", "a", ":">> \o s

\* sha256_str("|".join(sorted(normalized_keywords))) if normalized_keywords else None
SkillsetHash(kw) ==
    IF kw = {} THEN None ELSE Some(Sha256Str(Join(Sorted(kw), <<"|">>)))

\* ------------------------------------------------------------------------
\* PdfHandler._extract_profile
\* ------------------------------------------------------------------------
\* an Optional[str] field is None or Some(string); a list field holds the
\* list, the empty sequence standing for None (`xs or None`)
ExtractProfile(s, now) ==
    Bind(NonBlankLines(s), LAMBDA lines :
    Bind(Join(SubSeq(lines, 1, Min(8, Len(lines))), <<"\n">>), LAMBDA header_blk :
    Bind(GuessCurrentTitle(header_blk), LAMBDA current_title :
    Bind(GuessCityCountry(header_blk), LAMBDA place :
    Bind(ExtractLinks(s), LAMBDA links :
    Bind(ParseRoles(ExtractSection(lines, <<<<"w", "o", "r", "k", " ", "e", "x", "p", "e", "r", "i", "e", "n", "c", "e">>, <<"e", "x", "p", "e", "r", "i", "e", "n", "c", "e">>>>)), LAMBDA parsedRoles :
    Bind(ParseEducation(ExtractSection(lines, <<<<"e", "d", "u", "c", "a", "t", "i", "o", "n">>>>)), LAMBDA parsedEdu :
    Bind(ParseListItems(ExtractSection(lines, <<<<"l", "a", "n", "g", "u", "a", "g", "e", "s">>, <<"l", "a", "n", "g", "u", "a", "g", "e">>>>)), LAMBDA langs :
    Bind(ParseSkillsAndMore(ExtractSection(lines, <<<<"s", "k", "i", "l", "l", "s">>>>), s), LAMBDA sk :
    Bind(NormalizedKeywords(<<sk.prim, sk.sec, sk.tools, sk.clouds, langs,
                              sk.domains, sk.industries>>), LAMBDA normalized_keywords :
       [raised |-> parsedRoles.raised \/ parsedEdu.raised,
        profile |->
          [full_name |-> GuessName(header_blk),
           email |-> ExtractEmail(s),
           phone |-> ExtractPhone(s),
           city |-> place[1],
           country |-> place[2],
           yoe |-> StoredYoe(ComputeYoe(parsedRoles.roles, now)),
           current_title |-> current_title,
           seniority |-> InferSeniority(current_title),
           work_auth |-> None,
           remote_pref |-> None,
           notice |-> None,
           salary |-> None,
           linkedin_url |-> links[1],
           portfolio_url |-> links[2],
           langs |-> langs,
           skills_primary |-> sk.prim,
           skills_secondary |-> sk.sec,
           tools |-> sk.tools,
           domains |-> sk.domains,
           industries |-> sk.industries,
           clouds |-> sk.clouds,
           roles |-> parsedRoles.roles,
           education |-> parsedEdu.edu,
           certs |-> ParseCerts(ExtractSection(lines, <<<<"c", "e", "r", "t", "i", "f", "i", "c", "a", "t", "i", "o", "n", "s">>, <<"c", "e", "r", "t", "i", "f", "i", "c", "a", "t", "i", "o", "n">>>>)),
           normalized_keywords |-> Sorted(normalized_keywords),
           skillset_hash |-> SkillsetHash(normalized_keywords)]]))))))))))

\* ------------------------------------------------------------------------
\* The documents of the model and the call of _extract_profile
\* ------------------------------------------------------------------------
NL == <<"\n">>

\* the first lines of a resume: name, title, place and contact lines
HeaderBlocks ==
    {<<"J", "a", "n", "e", " ", "D", "o", "e">> \o NL \o <<"S", "e", "n", "i", "o", "r", " ", "P", "r", "o", "d", "u", "c", "t", " ", "D", "e", "s", "i", "g", "n", "e", "r">> \o NL \o <<"D", "u", "b", "l", "i", "n", ",", " ", "I", "r", "e", "l", "a", "n", "d">> \o NL \o <<"j", "a", "n", "e", ".", "d", "o", "e", "@", "e", "x", "a", "m", "p", "l", "e", ".", "c", "o", "m">> \o NL \o <<"+", "3", "5", "3", " ", "8", "7", " ", "1", "2", "3", " ", "4", "5", "6", "7">> \o NL \o <<"h", "t", "t", "p", "s", ":", "/", "/", "w", "w", "w", ".", "l", "i", "n", "k", "e", "d", "i", "n", ".", "c", "o", "m", "/", "i", "n", "/", "j", "a", "n", "e", " ", "h", "t", "t", "p", ":", "/", "/", "j", "a", "n", "e", ".", "d", "e", "v">>,
     <<"j", "a", "n", "e", "@", "x", ".", "i", "o">> \o NL \o <<"J", "a", "n", "e", " ", "D", "o", "e">> \o NL \o <<"U", "X", " ", "L", "e", "a", "d">>,
     <<>>}

\* work experience sections: roles in reverse order of time, an end before
\* the start, dates that are no calendar dates, lines of every class
WorkBlocks ==
    {<<>>,
     <<"W", "o", "r", "k", " ", "E", "x", "p", "e", "r", "i", "e", "n", "c", "e">> \o NL \o <<"D", "e", "s", "i", "g", "n", "e", "r", " ", "-", " ", "A", "c", "m", "e", ",", " ", "B", "e", "r", "l", "i", "n">> \o NL \o <<"2", "0", "1", "8", "-", "0", "3", "-", "0", "1", " ", "-", " ", "2", "0", "2", "0", "-", "0", "3", "-", "0", "1">> \o NL \o <<"BULLET", " ", "B", "u", "i", "l", "t", " ", "X">> \o NL \o <<"E", "n", "g", "i", "n", "e", "e", "r", " ", "-", " ", "I", "n", "i", "t", "e", "c", "h">> \o NL \o <<"2", "0", "1", "5", "-", "0", "3", "-", "0", "1", " ", "-", " ", "2", "0", "1", "8", "-", "0", "2", "-", "2", "8">>,
     <<"E", "x", "p", "e", "r", "i", "e", "n", "c", "e">> \o NL \o <<"D", "e", "v", " ", "-", " ", "A", "c", "m", "e">> \o NL \o <<"2", "0", "2", "0", "-", "0", "1", "-", "0", "1", " ", "-", " ", "2", "0", "1", "8", "-", "0", "1", "-", "0", "1">>,
     <<"E", "x", "p", "e", "r", "i", "e", "n", "c", "e">> \o NL \o <<"D", "e", "v", " ", "-", " ", "A", "c", "m", "e">> \o NL \o <<"2", "0", "1", "8", "-", "1", "3", "-", "4", "5", " ", "-", " ", "2", "0", "1", "9", "-", "0", "2", "-", "3", "0">>,
     <<"E", "x", "p", "e", "r", "i", "e", "n", "c", "e">> \o NL \o <<"D", "e", "v", " ", "-", " ", "A", "c", "m", "e">> \o NL \o <<"2", "0", "1", "9", "-", "0", "1", "-", "0", "1", " ", "-", " ", "2", "0", "1", "9", "-", "0", "2", "-", "3", "0">>,
     <<"E", "x", "p", "e", "r", "i", "e", "n", "c", "e">> \o NL \o <<"-", " ", "L", "e", "d", " ", "Y">> \o NL \o <<"-">> \o NL \o <<"N", "o", "t", "e", "s">> \o NL \o <<"2", "0", "2", "1", "-", "0", "3", "-", "0", "1">>}

\* education sections
EduBlocks ==
    {<<>>,
     <<"E", "d", "u", "c", "a", "t", "i", "o", "n">> \o NL \o <<"M", "I", "T", " ", "-", " ", "B", "S", "c">> \o NL \o <<"G", "r", "a", "d", "u", "a", "t", "e", "d", ":", " ", "1", "9", "7", "3">> \o NL \o <<"1", "9", "9", "9">>}

\* skills, languages and certifications sections; the second names the terms
\* of the first in another order, case and spacing
SkillBlocks ==
    {<<>>,
     <<"S", "k", "i", "l", "l", "s">> \o NL \o <<"P", "y", "t", "h", "o", "n", ",", " ", "S", "Q", "L", " ", "|", " ", "F", "i", "g", "m", "a">> \o NL \o <<"D", "o", "c", "k", "e", "r", ",", " ", " ", "d", "a", "t", "a", " ", " ", " ", "M", "o", "d", "e", "l", "i", "n", "g">> \o NL \o <<"L", "a", "n", "g", "u", "a", "g", "e", "s">> \o NL \o <<"E", "n", "g", "l", "i", "s", "h", ",", " ", "F", "r", "e", "n", "c", "h">>,
     <<"S", "k", "i", "l", "l", "s">> \o NL \o <<"s", "q", "l", ",", "P", "Y", "T", "H", "O", "N", "|", "f", "i", "g", "m", "a">> \o NL \o <<"d", "a", "t", "a", " ", "m", "o", "d", "e", "l", "i", "n", "g", " ", ",", " ", "d", "o", "c", "k", "e", "r">> \o NL \o <<"L", "a", "n", "g", "u", "a", "g", "e", "s">> \o NL \o <<"BULLET", " ", "F", "r", "e", "n", "c", "h">> \o NL \o <<"BULLET", " ", "e", "n", "g", "l", "i", "s", "h">>,
     <<"C", "e", "r", "t", "i", "f", "i", "c", "a", "t", "i", "o", "n", "s">> \o NL \o <<"A", "W", "S", " ", "C", "e", "r", "t", "i", "f", "i", "e", "d", " ", "D", "e", "v", "e", "l", "o", "p", "e", "r">> \o NL \o <<"BULLET", " ", "P", "M", "P">>}

\* "\n".join of the blocks that are not empty
JoinBlocks(blocks) == Join(SelectSeq(blocks, LAMBDA b : b # <<>>), NL)

\* the full texts: one block of each kind
ProfileTexts ==
    {JoinBlocks(<<h, w, e, s>>) :
        h \in HeaderBlocks, w \in WorkBlocks, e \in EduBlocks, s \in SkillBlocks}

\* the days datetime.utcnow() may fall on
Nows == {ToOrdinal(2024, 2, 29), ToOrdinal(2030, 6, 15)}

\* profile = self._extract_profile(full_text)
ExtractProfileCall ==
    /\ xpc = "ready"
    /\ \E now \in Nows :
          \E r \in {ExtractProfile(full_text, now)} :
             IF r.raised
                THEN profile' = None /\ xpc' = "raised"
                ELSE profile' = Some(r.profile) /\ xpc' = "done"
    /\ UNCHANGED full_text
    /\ UNCHANGED <<handlerVars, chunkVars, ingestVars, filterVars, parseVars>>
    /\ UNCHANGED <<listVars, seniorityVars>>

\* ------------------------------------------------------------------------
\* Properties of the profile extraction
\* ------------------------------------------------------------------------
ProfileFields ==
    {"full_name", "email", "phone", "city", "country", "yoe", "current_title",
     "seniority", "work_auth", "remote_pref", "notice", "salary", "linkedin_url",
     "portfolio_url", "langs", "skills_primary", "skills_secondary", "tools",
     "domains", "industries", "clouds", "roles", "education", "certs",
     "normalized_keywords", "skillset_hash"}

\* some line of the document begins, in any letter case, with one of hs
HasHeaderLine(hs) ==
    \E k \in 1..Len(NonBlankLines(full_text)) :
        StartsWithAny(NonBlankLines(full_text)[k], hs)

\* C12: profile extraction never raises: neither _extract_profile as a whole
\* nor a step of its section parsers ends in an exception, on the empty
\* text and on sections of any mix of lines; the returned mapping has every
\* field, and a field whose heuristic has nothing to match is None (for a
\* list: absent) and yoe is 0.
C12_ProfileAlwaysReturned ==
    /\ xpc # "raised"
    /\ ppc # "raised"
    /\ (xpc = "done") =>
          LET p == profile[1]
          IN /\ DOMAIN p = ProfileFields
             /\ (AtSign \notin Range(full_text)) => p.email = None
             /\ (\A k \in 1..Len(full_text) : ~IsDigit(full_text[k])) =>
                   p.phone = None /\ p.yoe = 0
             /\ ~Contains(Lower(full_text), <<"h", "t", "t", "p">>) =>
                   p.linkedin_url = None /\ p.portfolio_url = None
             /\ ("," \notin Range(full_text)) => p.city = None /\ p.country = None
             /\ ~HasHeaderLine(<<<<"w", "o", "r", "k", " ", "e", "x", "p", "e", "r", "i", "e", "n", "c", "e">>, <<"e", "x", "p", "e", "r", "i", "e", "n", "c", "e">>>>) =>
                   p.roles = <<>> /\ p.yoe = 0
             /\ ~HasHeaderLine(<<<<"e", "d", "u", "c", "a", "t", "i", "o", "n">>>>) => p.education = <<>>
             /\ ~HasHeaderLine(<<<<"s", "k", "i", "l", "l", "s">>>>) =>
                   p.skills_primary = <<>> /\ p.skills_secondary = <<>>
             /\ ~HasHeaderLine(<<<<"c", "e", "r", "t", "i", "f", "i", "c", "a", "t", "i", "o", "n">>>>) => p.certs = <<>>
             /\ ~HasHeaderLine(<<<<"l", "a", "n", "g", "u", "a", "g", "e">>>>) => p.langs = <<>>
             /\ (p.current_title = None) => p.seniority = None
             /\ (full_text = <<>>) =>
                   /\ p.yoe = 0
                   /\ \A f \in ProfileFields \ {"yoe"} : p[f] = <<>>

\* a profile was returned for a document whose only section mixes header,
\* dash-only, plain and date-only lines, and every unmatched field is absent
C12_Witness ==
    /\ xpc = "done"
    /\ full_text # <<>>
    /\ profile[1].email = None /\ profile[1].seniority = None
    /\ Len(profile[1].roles) = 2 /\ profile[1].roles[1].title = <<>>
    /\ profile[1].education = <<>> /\ profile[1].skillset_hash = None
    /\ profile[1].yoe = 0

\* the day numbers of the dates of one field of the stored roles that are
\* calendar dates
StoredDates(col) ==
    LET rs == profile[1].roles
    IN {ParseIsoDate(rs[k][col][1])[1] :
           k \in {j \in 1..Len(rs) : /\ Filled(rs[j][col])
                                     /\ ParseIsoDate(rs[j][col][1]) # None}}

\* C16: the stored yoe is never negative; it is 0 when no role has a
\* parseable start date or when the latest parseable end lies before the
\* earliest parseable start; otherwise, when some end date is parseable, it
\* is the integer nearest to (latest end - earliest start).days / 365.25.
\* Roles spanning 2015-03-01..2018-02-28 and 2018-03-01..2020-03-01 give 5.
C16_YoeFromRoleDates ==
    (xpc = "done") =>
        LET yoe == profile[1].yoe
            starts == StoredDates("start")
            ends == StoredDates("end")
            days == Greatest(ends) - Least(starts)
        IN /\ yoe >= 0
           /\ (starts = {}) => yoe = 0
           /\ (starts # {} /\ ends # {}) =>
                 IF days < 0 THEN yoe = 0
                 ELSE /\ 2 * (4 * days - 1461 * yoe) <= 1461
                      /\ 2 * (1461 * yoe - 4 * days) <= 1461
           /\ (/\ Len(profile[1].roles) = 2
               /\ profile[1].roles[1].start = <<<<"2", "0", "1", "8", "-", "0", "3", "-", "0", "1">>>>
               /\ profile[1].roles[1].end = <<<<"2", "0", "2", "0", "-", "0", "3", "-", "0", "1">>>>
               /\ profile[1].roles[2].start = <<<<"2", "0", "1", "5", "-", "0", "3", "-", "0", "1">>>>
               /\ profile[1].roles[2].end = <<<<"2", "0", "1", "8", "-", "0", "2", "-", "2", "8">>>>)
                 => yoe = 5

\* the two roles of the example, the later one first
C16_Witness ==
    /\ xpc = "done"
    /\ Len(profile[1].roles) = 2
    /\ profile[1].roles[1].start = <<<<"2", "0", "1", "8", "-", "0", "3", "-", "0", "1">>>>
    /\ profile[1].roles[2].start = <<<<"2", "0", "1", "5", "-", "0", "3", "-", "0", "1">>>>
    /\ profile[1].yoe = 5

\* the classified terms of the stored profile
StoredTerms ==
    LET p == profile[1]
    IN Range(p.skills_primary) \cup Range(p.skills_secondary) \cup Range(p.tools)
          \cup Range(p.clouds) \cup Range(p.langs) \cup Range(p.domains)
          \cup Range(p.industries)

\* a term without regard to letter case and to the amount of whitespace
TermKey(x) == Join(Words(Lower(x)), <<" ">>)

TermKeys == {TermKey(x) : x \in StoredTerms} \ {<<>>}

\* the digest of a set of terms
HashOfTerms(keys) == Sha256Str(Join(Sorted(keys), <<"|">>))

\* the document ends with the given block
EndsWith(s, b) == Len(s) >= Len(b) /\ SubSeq(s, Len(s) - Len(b) + 1, Len(s)) = b

\* two listings of the same terms, in different order, case and spacing
TermsListingA ==
    <<"S", "k", "i", "l", "l", "s">> \o NL \o <<"P", "y", "t", "h", "o", "n", ",", " ", "S", "Q", "L", " ", "|", " ", "F", "i", "g", "m", "a">> \o NL \o <<"D", "o", "c", "k", "e", "r", ",", " ", " ", "d", "a", "t", "a", " ", " ", " ", "M", "o", "d", "e", "l", "i", "n", "g">>
        \o NL \o <<"L", "a", "n", "g", "u", "a", "g", "e", "s">> \o NL \o <<"E", "n", "g", "l", "i", "s", "h", ",", " ", "F", "r", "e", "n", "c", "h">>

TermsListingB ==
    <<"S", "k", "i", "l", "l", "s">> \o NL \o <<"s", "q", "l", ",", "P", "Y", "T", "H", "O", "N", "|", "f", "i", "g", "m", "a">> \o NL \o <<"d", "a", "t", "a", " ", "m", "o", "d", "e", "l", "i", "n", "g", " ", ",", " ", "d", "o", "c", "k", "e", "r">>
        \o NL \o <<"L", "a", "n", "g", "u", "a", "g", "e", "s">> \o NL \o <<"BULLET", " ", "F", "r", "e", "n", "c", "h">> \o NL \o <<"BULLET", " ", "e", "n", "g", "l", "i", "s", "h">>

\* C17: the skillset hash is a function of the set of normalized terms
\* alone: it is the digest of that set, so two documents that list the same
\* terms in another order, letter case or spacing have the same hash; it is
\* absent exactly when the set is empty, exactly when normalized_keywords
\* is absent.
C17_HashOfNormalizedTermSet ==
    (xpc = "done") =>
        LET p == profile[1]
        IN /\ p.skillset_hash =
                 (IF TermKeys = {} THEN None ELSE Some(HashOfTerms(TermKeys)))
           /\ (p.skillset_hash = None) <=> (p.normalized_keywords = <<>>)
           /\ (EndsWith(full_text, TermsListingA) \/ EndsWith(full_text, TermsListingB))
                 => p.skillset_hash =
                       Some(Sha256Str(<<"d", "a", "t", "a", " ", "m", "o", "d", "e", "l", "i", "n", "g", "|", "d", "o", "c", "k", "e", "r", "|", "e", "n", "g", "l", "i", "s", "h", "|", "f", "i", "g", "m", "a", "|", "f", "r", "e", "n", "c", "h", "|", "p", "y", "t", "h", "o", "n", "|", "s", "q", "l">>))

C17_Witness ==
    /\ xpc = "done"
    /\ EndsWith(full_text, TermsListingB)
    /\ profile[1].skills_primary = <<<<"s", "q", "l">>, <<"P", "Y", "T", "H", "O", "N">>, <<"f", "i", "g", "m", "a">>>>
    /\ profile[1].skillset_hash # None

\* ------------------------------------------------------------------------
\* The calls of _extract_section and of the list-style section parsers
\* ------------------------------------------------------------------------
\* lines = the stripped non-blank lines of a document
DocLines ==
    {<<"C", "e", "r", "t", "i", "f", "i", "c", "a", "t", "i", "o", "n", "s">>, <<"L", "a", "n", "g", "u", "a", "g", "e", "s">>, <<"E", "D", "U", "C", "A", "T", "I", "O", "N">>, <<"BULLET", " ", "P", "M", "P">>, <<"-", " ", "p", "m", "p">>,
      <<"E", "n", "g", "l", "i", "s", "h", ",", " ", "f", "r", "e", "n", "c", "h">>, <<"F", "r", "e", "n", "c", "h">>, <<"P", "M", "P", ",", " ", "S", "c", "r", "u", "m", " ", "M", "a", "s", "t", "e", "r">>, <<"E", "x", "p", "e", "r", "i", "e", "n", "c", "e", "d", " ", "l", "e", "a", "d">>}

\* the headers arguments of the three calls made on such documents
WorkTarget == <<<<"w", "o", "r", "k", " ", "e", "x", "p", "e", "r", "i", "e", "n", "c", "e">>, <<"e", "x", "p", "e", "r", "i", "e", "n", "c", "e">>>>

CertTarget == <<<<"c", "e", "r", "t", "i", "f", "i", "c", "a", "t", "i", "o", "n", "s">>, <<"c", "e", "r", "t", "i", "f", "i", "c", "a", "t", "i", "o", "n">>>>

LangTarget == <<<<"l", "a", "n", "g", "u", "a", "g", "e", "s">>, <<"l", "a", "n", "g", "u", "a", "g", "e">>>>

\* xs_section = self._extract_section(lines, headers)
ExtractSectionCall ==
    /\ lpc = "ready"
    /\ section' = ExtractSection(doc_lines, target)
    /\ lpc' = "section"
    /\ UNCHANGED <<doc_lines, target, parsed, lineIdx, cur, roles, edu, ppc>>
    /\ UNCHANGED <<handlerVars, chunkVars, ingestVars, filterVars, profileVars, seniorityVars>>

\* certs = self._parse_certs(certs_section)
ParseCertsCall ==
    /\ lpc = "section"
    /\ target = CertTarget
    /\ parsed' = ParseCerts(section)
    /\ lpc' = "done"
    /\ UNCHANGED <<doc_lines, target>>
    /\ UNCHANGED <<handlerVars, chunkVars, ingestVars, filterVars, parseVars, profileVars, seniorityVars>>

\* langs = self._parse_list_items(langs_section)
ParseListItemsCall ==
    /\ lpc = "section"
    /\ target = LangTarget
    /\ parsed' = ParseListItems(section)
    /\ lpc' = "done"
    /\ UNCHANGED <<doc_lines, target>>
    /\ UNCHANGED <<handlerVars, chunkVars, ingestVars, filterVars, parseVars, profileVars, seniorityVars>>

\* line k of the document begins, in any letter case, with one of hs
LineHasPrefix(k, hs) ==
    \E h \in hs :
        /\ Len(h) <= Len(doc_lines[k])
        /\ Lower(SubSeq(doc_lines[k], 1, Len(h))) = h

TargetAt(k) == LineHasPrefix(k, Range(target))

OtherHeaderAt(k) == LineHasPrefix(k, Range(SectionHeaders) \ Range(target))

\* C21: the section is empty when no line begins with a target header;
\* otherwise it is the run of lines strictly between the first such line a
\* and the first later line e that begins with a known header of another
\* section (the end of the document without one): the header line is left
\* out and a repetition of the target header neither restarts nor ends the
\* section.
C21_SectionBetweenHeaders ==
    (lpc \in {"section", "done"}) =>
        IF \A k \in 1..Len(doc_lines) : ~TargetAt(k)
           THEN section = <<>>
           ELSE \E a \in 1..Len(doc_lines), e \in 2..(Len(doc_lines) + 1) :
                   /\ a < e
                   /\ TargetAt(a)
                   /\ \A k \in 1..(a - 1) : ~TargetAt(k)
                   /\ e = Len(doc_lines) + 1 \/ OtherHeaderAt(e)
                   /\ \A k \in (a + 1)..(e - 1) : ~OtherHeaderAt(k)
                   /\ section = [k \in 1..(e - a - 1) |-> doc_lines[a + k]]

\* a document whose target header is repeated and is followed by the header
\* of another section
C21_Witness ==
    /\ lpc = "section"
    /\ Len(doc_lines) = 3
    /\ TargetAt(1) /\ TargetAt(2) /\ OtherHeaderAt(3)
    /\ section = <<doc_lines[2]>>

\* C22: the items parsed from a certifications or languages section hold no
\* two items that are equal without regard to letter case, and no item is
\* an unsplit comma-separated line.
C22_ListItemsUniqueAndSplit ==
    (lpc = "done") =>
        /\ \A i \in 1..Len(parsed), j \in 1..Len(parsed) :
              (Lower(parsed[i]) = Lower(parsed[j])) => i = j
        /\ \A i \in 1..Len(parsed) : "," \notin Range(parsed[i])

\* C23: the guessed title is never the line that was guessed as the name
\* (the lines of a header block of the model are pairwise different, so the
\* two guesses are the same line exactly when they are the same text).
C23_TitleIsNotTheNameLine ==
    (xpc = "done" /\ profile[1].full_name # None) =>
        profile[1].current_title # profile[1].full_name

\* ------------------------------------------------------------------------
\* The call of _infer_seniority, next to the translation of a query
\* ------------------------------------------------------------------------
\* titles: one per keyword of the table, and titles with several keywords,
\* with keywords inside longer words, without a keyword, empty and absent
SeniorityTitles ==
    {Some(SENIORITY_KEYWORDS[k][1] \o <<" ", "e", "n", "g", "i", "n", "e", "e", "r">>) : k \in 1..Len(SENIORITY_KEYWORDS)}
        \cup {Some(<<"P", "r", "o", "d", "u", "c", "t", " ", "M", "a", "n", "a", "g", "e", "r", " ", "(", "S", "e", "n", "i", "o", "r", ")">>), Some(<<"S", "e", "n", "i", "o", "r", " ", "M", "a", "n", "a", "g", "e", "r">>),
              Some(<<"S", "r", ".", " ", "S", "t", "a", "f", "f", " ", "E", "n", "g", "i", "n", "e", "e", "r">>), Some(<<"D", "i", "r", "e", "c", "t", "o", "r", ",", " ", "f", "o", "r", "m", "e", "r", "l", "y", " ", "I", "n", "t", "e", "r", "n">>),
              Some(<<"C", "h", "i", "e", "f", " ", "o", "f", " ", "S", "t", "a", "f", "f">>), Some(<<"V", "P", " ", "o", "f", " ", "E", "n", "g", "i", "n", "e", "e", "r", "i", "n", "g">>),
              Some(<<"M", "i", "d", "w", "i", "f", "e">>), Some(<<"H", "e", "a", "d", "h", "u", "n", "t", "e", "r">>), Some(<<"D", "e", "s", "i", "g", "n", "e", "r">>),
              Some(<<>>), None}

\* queries: one per word of SENIORITY_WORDS, and one without any
SeniorityQueries ==
    {<<"n", "e", "e", "d", " ", "a", " ">> \o SENIORITY_WORDS[k] : k \in 1..Len(SENIORITY_WORDS)}
        \cup {<<"n", "e", "e", "d", " ", "a", " ", "d", "e", "s", "i", "g", "n", "e", "r">>}

\* seniority = self._infer_seniority(current_title)
InferSeniorityCall ==
    /\ spc = "ready"
    /\ inferred' = InferSeniority(job_title)
    /\ spc' = "done"
    /\ UNCHANGED job_title
    /\ UNCHANGED <<handlerVars, chunkVars, ingestVars, filterVars, parseVars, profileVars, listVars>>

\* the table entries whose keyword is a whole word of the lower-cased title
KeywordsIn(t) ==
    {k \in 1..Len(SENIORITY_KEYWORDS) : WordSearch(Lower(t), SENIORITY_KEYWORDS[k][1])}

\* C24: an absent or empty title and a title without a keyword give no
\* seniority; otherwise the seniority is the level of the entry that comes
\* first in the table among those whose keyword is a whole word of the
\* lower-cased title, wherever the keywords stand ("Product Manager
\* (Senior)" is senior).
C24_FirstTableEntryWins ==
    (spc = "done") =>
        /\ IF job_title = None \/ job_title = Some(<<>>) THEN inferred = None
           ELSE IF KeywordsIn(job_title[1]) = {} THEN inferred = None
           ELSE \E k \in KeywordsIn(job_title[1]) :
                   /\ \A j \in KeywordsIn(job_title[1]) : k <= j
                   /\ inferred = Some(SENIORITY_KEYWORDS[k][2])
        /\ (job_title = Some(<<"P", "r", "o", "d", "u", "c", "t", " ", "M", "a", "n", "a", "g", "e", "r", " ", "(", "S", "e", "n", "i", "o", "r", ")">>))
              => inferred = Some(<<"s", "e", "n", "i", "o", "r">>)

C24_Witness ==
    /\ spc = "done"
    /\ job_title = Some(<<"P", "r", "o", "d", "u", "c", "t", " ", "M", "a", "n", "a", "g", "e", "r", " ", "(", "S", "e", "n", "i", "o", "r", ")">>)
    /\ inferred = Some(<<"s", "e", "n", "i", "o", "r">>)

\* w is the only word of SENIORITY_WORDS that is a whole word of s
OnlySeniorityWord(s, w) ==
    \A k \in 1..Len(SENIORITY_WORDS) :
        WordSearch(s, SENIORITY_WORDS[k]) <=> (SENIORITY_WORDS[k] = w)

\* C26: for a query and a title with the same single seniority word, the
\* value of the seniority filter of the query is the seniority stored for
\* the title.
C26_SeniorityVocabulariesAgree ==
    \A k \in 1..Len(SENIORITY_WORDS) :
        (/\ fpc = "done" /\ spc = "done"
         /\ job_title # None
         /\ OnlySeniorityWord(query, SENIORITY_WORDS[k])
         /\ OnlySeniorityWord(job_title[1], SENIORITY_WORDS[k]))
            => /\ inferred # None
               /\ filt.seniority = <<[eq |-> inferred[1]]>>

\* ------------------------------------------------------------------------
\* Initial state and specifications
\* ------------------------------------------------------------------------
Init ==
    /\ hstate = "none"
    /\ args = <<>>
    /\ chunk_size = 0
    /\ chunk_overlap = 0
    /\ error = "none"
    /\ pc = "idle"
    /\ text = <<>>
    /\ start = 0
    /\ chunks = <<>>
    /\ uploads = {}
    /\ store = {}
    /\ ingestLog = <<>>
    /\ query = <<>>
    /\ filt = EmptyFilt
    /\ fpc = "ready"
    /\ section = <<>>
    /\ lineIdx = 0
    /\ cur = None
    /\ roles = <<>>
    /\ edu = <<>>
    /\ ppc = "idle"
    /\ full_text = <<>>
    /\ profile = None
    /\ xpc = "idle"
    /\ IdleLists /\ IdleSeniority

NextChunk ==
    \/ \E cs \in ConfigRange, ov \in ConfigRange : Construct(cs, ov)
    \/ \E t \in Texts : ChunkStart(t)
    \/ ChunkIter
    \/ ChunkExit

SpecChunk == Init /\ [][NextChunk]_vars

FairSpecChunk == SpecChunk /\ WF_vars(ChunkIter) /\ WF_vars(ChunkExit)

NextIngest ==
    \/ \E cs \in ConfigRange, ov \in ConfigRange : Construct(cs, ov)
    \/ \E f \in FileNames, d \in Docs : SaveOne(f, d)
    \/ UpdateQDrant

SpecIngest == Init /\ [][NextIngest]_vars

\* the query is the argument of the call
InitFilter ==
    /\ hstate = "none"
    /\ args = <<>>
    /\ chunk_size = 0
    /\ chunk_overlap = 0
    /\ error = "none"
    /\ pc = "idle"
    /\ text = <<>>
    /\ start = 0
    /\ chunks = <<>>
    /\ uploads = {}
    /\ store = {}
    /\ ingestLog = <<>>
    /\ query \in Queries
    /\ filt = EmptyFilt
    /\ fpc = "ready"
    /\ section = <<>>
    /\ lineIdx = 0
    /\ cur = None
    /\ roles = <<>>
    /\ edu = <<>>
    /\ ppc = "idle"
    /\ full_text = <<>>
    /\ profile = None
    /\ xpc = "idle"
    /\ IdleLists /\ IdleSeniority

NextFilter == ParseNlFilters

SpecFilter == InitFilter /\ [][NextFilter]_vars

\* the section is the argument of the call of _parse_roles or _parse_education
InitParse ==
    /\ hstate = "none"
    /\ args = <<>>
    /\ chunk_size = 0
    /\ chunk_overlap = 0
    /\ error = "none"
    /\ pc = "idle"
    /\ text = <<>>
    /\ start = 0
    /\ chunks = <<>>
    /\ uploads = {}
    /\ store = {}
    /\ ingestLog = <<>>
    /\ query = <<>>
    /\ filt = EmptyFilt
    /\ fpc = "ready"
    /\ \/ section \in Sections(RoleLines) /\ ppc = "roles"
       \/ section \in Sections(EduLines) /\ ppc = "edu"
    /\ lineIdx = 0
    /\ cur = None
    /\ roles = <<>>
    /\ edu = <<>>
    /\ full_text = <<>>
    /\ profile = None
    /\ xpc = "idle"
    /\ IdleLists /\ IdleSeniority

NextParse ==
    \/ RolesIter
    \/ RolesReturn
    \/ EduIter
    \/ EduReturn

SpecParse == InitParse /\ [][NextParse]_vars

\* the full text is the argument of the call of _extract_profile
InitProfile ==
    /\ hstate = "none"
    /\ args = <<>>
    /\ chunk_size = 0
    /\ chunk_overlap = 0
    /\ error = "none"
    /\ pc = "idle"
    /\ text = <<>>
    /\ start = 0
    /\ chunks = <<>>
    /\ uploads = {}
    /\ store = {}
    /\ ingestLog = <<>>
    /\ query = <<>>
    /\ filt = EmptyFilt
    /\ fpc = "ready"
    /\ section = <<>>
    /\ lineIdx = 0
    /\ cur = None
    /\ roles = <<>>
    /\ edu = <<>>
    /\ ppc = "idle"
    /\ full_text \in ProfileTexts
    /\ profile = None
    /\ xpc = "ready"
    /\ IdleLists /\ IdleSeniority

NextProfile == ExtractProfileCall

SpecProfile == InitProfile /\ [][NextProfile]_vars

\* _extract_profile as a whole, and its two section parsers step by step
InitExtract == InitProfile \/ InitParse

NextExtract ==
    \/ ExtractProfileCall
    \/ NextParse

SpecExtract == InitExtract /\ [][NextExtract]_vars

\* the lines and the headers are the arguments of the call of _extract_section
InitLists ==
    /\ hstate = "none"
    /\ args = <<>>
    /\ chunk_size = 0
    /\ chunk_overlap = 0
    /\ error = "none"
    /\ pc = "idle"
    /\ text = <<>>
    /\ start = 0
    /\ chunks = <<>>
    /\ uploads = {}
    /\ store = {}
    /\ ingestLog = <<>>
    /\ query = <<>>
    /\ filt = EmptyFilt
    /\ fpc = "ready"
    /\ section = <<>>
    /\ lineIdx = 0
    /\ cur = None
    /\ roles = <<>>
    /\ edu = <<>>
    /\ ppc = "idle"
    /\ full_text = <<>>
    /\ profile = None
    /\ xpc = "idle"
    /\ doc_lines \in Sections(DocLines)
    /\ target \in {WorkTarget, CertTarget, LangTarget}
    /\ parsed = <<>>
    /\ lpc = "ready"
    /\ IdleSeniority

NextLists ==
    \/ ExtractSectionCall
    \/ ParseCertsCall
    \/ ParseListItemsCall

SpecLists == InitLists /\ [][NextLists]_vars

\* the title is the argument of the call of _infer_seniority, the query that
\* of parse_nl_filters
InitSeniority ==
    /\ hstate = "none"
    /\ args = <<>>
    /\ chunk_size = 0
    /\ chunk_overlap = 0
    /\ error = "none"
    /\ pc = "idle"
    /\ text = <<>>
    /\ start = 0
    /\ chunks = <<>>
    /\ uploads = {}
    /\ store = {}
    /\ ingestLog = <<>>
    /\ query \in SeniorityQueries
    /\ filt = EmptyFilt
    /\ fpc = "ready"
    /\ section = <<>>
    /\ lineIdx = 0
    /\ cur = None
    /\ roles = <<>>
    /\ edu = <<>>
    /\ ppc = "idle"
    /\ full_text = <<>>
    /\ profile = None
    /\ xpc = "idle"
    /\ IdleLists
    /\ job_title \in SeniorityTitles
    /\ inferred = None
    /\ spc = "ready"

NextSeniority ==
    \/ InferSeniorityCall
    \/ ParseNlFilters

SpecSeniority == InitSeniority /\ [][NextSeniority]_vars

====
